---- MODULE Spec2Model ----
(***************************************************************************)
(* Model of the resumable domain-user iterator (utils/user_iterator.py),   *)
(* of the two commands that drive it (cmds/gather_domain_token_stats.py,   *)
(* cmds/revoke_tokens_for_domain_clientid.py) and of the token revoker     *)
(* (utils/token_revoker.py) of the gfw-toolkit.                            *)
(*                                                                         *)
(* Strings are sequences of one-character strings.  A file of the working *)
(* directory is <<>> when it does not exist and <<content>> when it does.  *)
(* A user tuple (email, id, full_name) is represented by its email; the   *)
(* email of the user at 0-based index i of the domain listing is i + 1.    *)
(***************************************************************************)
EXTENDS Integers, Sequences, FiniteSets, TLC

\* Bounds of the model.
MaxUsers == 12
MaxRuns == 3
MaxRevokeUsers == 2
MaxScopeLen == 3
MaxPagedUsers == 4
MaxMaxRetries == 8
MaxDomainUsers == 2
MaxPrefixUsers == 11
MaxUserListLen == 2
MaxAddTokenCalls == 3
MaxKeyPartLen == 2

\* user_iterator.py:38
USER_PROGRESS_CHECKPOINT_BATCH == 10

\* Python values that are not e-mail addresses.
None == -1
EmptyStr == 0

Min(a, b) == IF a < b THEN a ELSE b

-----------------------------------------------------------------------------
\* The working directory (file_manager.py).

FileExists(f) == f # <<>>
ReadJsonFile(f) == f[1]
WriteJsonFile(content) == <<content>>
RemoveFile(f) == <<>>

-----------------------------------------------------------------------------
\* The remote side: the domain listing and the grants of each user.

Email(i) == i + 1

RECURSIVE RemoteUsers(_)
RemoteUsers(n) == IF n = 0 THEN <<>> ELSE Append(RemoteUsers(n - 1), Email(n - 1))

\* Two domains.  An email address is a number: its user part is the number
\* below DomainStride, its domain part is the rest.
PrimaryDomain == "altostrat.com"
OtherDomain == "example.com"
AppsDomains == {PrimaryDomain, OtherDomain}
DomainStride == 1000

\* validators.py:94-109 for a properly formatted address: (user_name, domain_name)
GetEmailParts(user_email) ==
  <<user_email % DomainStride,
    IF user_email < DomainStride THEN PrimaryDomain ELSE OtherDomain>>

\* The listing of the first n users of a domain.
DomainUsers(apps_domain, n) ==
  [i \in 1..n |-> IF apps_domain = PrimaryDomain
                  THEN RemoteUsers(n)[i]
                  ELSE RemoteUsers(n)[i] + DomainStride]

ClientIds == {<<"c", "1">>, <<"c", "2">>}
Scopes == {<<"s", "1">>, <<"s", "2">>}

\* The token list of a user as GetTokensForUser returns it: sorted by
\* clientId, each token with its scopes.
RemoteTokens(e) ==
  (IF e % 2 = 1 THEN <<[clientId |-> <<"c", "1">>, scopes |-> << <<"s", "1">> >>]>>
                ELSE <<>>)
  \o
  (IF e % 3 = 0 THEN <<[clientId |-> <<"c", "2">>,
                        scopes |-> << <<"s", "1">>, <<"s", "2">> >>]>>
                ELSE <<>>)

-----------------------------------------------------------------------------
\* token_report_utils.py

PackStatKey(client_id, scope) == scope \o <<" ">> \o client_id

StatKeys == {PackStatKey(c, s) : c \in ClientIds, s \in Scopes}

\* The empty dict token_stats = {}: a key without users is an absent key.
EmptyStats == [k \in StatKeys |-> <<>>]

\* gather_domain_token_stats.py:116-119, the scopes of one token.
RECURSIVE AppendScopes(_, _, _, _)
AppendScopes(stats, client_id, scopes, user_email) ==
  IF scopes = <<>> THEN stats
  ELSE AppendScopes(
         [stats EXCEPT ![PackStatKey(client_id, Head(scopes))] = Append(@, user_email)],
         client_id, Tail(scopes), user_email)

\* gather_domain_token_stats.py:114-119, the tokens of one user.
RECURSIVE AppendTokens(_, _, _)
AppendTokens(stats, token_list, user_email) ==
  IF token_list = <<>> THEN stats
  ELSE AppendTokens(
         AppendScopes(stats, Head(token_list).clientId, Head(token_list).scopes,
                      user_email),
         Tail(token_list), user_email)

\* str.split(None, 1) as UnpackStatKey uses it (token_report_utils.py:155).
IsSpace(ch) == ch \in {" ", "\t", "\n"}

RECURSIVE LStrip(_)
LStrip(s) == IF s # <<>> /\ IsSpace(Head(s)) THEN LStrip(Tail(s)) ELSE s

RECURSIVE FirstWord(_)
FirstWord(s) ==
  IF s = <<>> \/ IsSpace(Head(s)) THEN <<>> ELSE <<Head(s)>> \o FirstWord(Tail(s))

UnpackStatKey(stat_key) ==
  LET s == LStrip(stat_key)
      first == FirstWord(s)
      rest == LStrip(SubSeq(s, Len(first) + 1, Len(s)))
  IN IF s = <<>> THEN <<>>
     ELSE IF rest = <<>> THEN <<first>>
     ELSE <<first, rest>>

SeqToSet(q) == {q[i] : i \in 1..Len(q)}

\* token_report_utils.py:267-288
GetUsersInDomain(token_data, target_client_id) ==
  UNION {SeqToSet(token_data[k]) :
           k \in {x \in DOMAIN token_data :
                    token_data[x] # <<>> /\ UnpackStatKey(x)[2] = target_client_id}}

-----------------------------------------------------------------------------
\* utils/user_iterator.py

\* One progress file for every command.
Prefix_Shared(cmd) == "collection"

\* gather_domain_token_stats.py:97 and revoke_tokens_for_domain_clientid.py:41
Prefix(cmd) == IF cmd = "gather" THEN "collection" ELSE "revocation"
Prefixes == {"collection", "revocation"}

\* Python truth value of a stored e-mail: None and '' are false.
Falsy(x) == x = None \/ x = EmptyStr

ReadLastUserProgress(file) ==
  IF FileExists(file) THEN ReadJsonFile(file) ELSE <<EmptyStr, EmptyStr, 0>>

Raise(msg) == [raised |-> TRUE, error |-> msg, value |-> 0]
Return(v) == [raised |-> FALSE, error |-> "", value |-> v]

\* A generator that forgets to skip back to the last saved batch.
NotSavedUsers_None(checked) == 0

\* user_iterator.py:140
NotSavedUsers(checked) == checked % USER_PROGRESS_CHECKPOINT_BATCH

\* A check that forgets to compare the previous user.
CheckResumable_NoPrevCheck(ul, uc, file, fl) ==
  LET p == ReadLastUserProgress(file)
      prev == p[1]
      email == p[2]
      checked == p[3]
  IN IF fl.first_n > 0 THEN Raise("resume and first_n")
     ELSE IF Falsy(prev) \/ Falsy(email) THEN Raise("no 2 previous users")
     ELSE IF checked < USER_PROGRESS_CHECKPOINT_BATCH THEN Raise("not enough progress")
     ELSE IF checked > uc THEN Raise("finished or users changed")
     ELSE IF email # ul[checked] THEN Raise("user mismatch")
     ELSE Return(checked - NotSavedUsers(checked))

\* A check that returns the stored count as it is.
CheckResumable_ReturnsChecked(ul, uc, file, fl) ==
  LET p == ReadLastUserProgress(file)
      prev == p[1]
      email == p[2]
      checked == p[3]
  IN IF fl.first_n > 0 THEN Raise("resume and first_n")
     ELSE IF Falsy(prev) \/ Falsy(email) THEN Raise("no 2 previous users")
     ELSE IF checked < USER_PROGRESS_CHECKPOINT_BATCH THEN Raise("not enough progress")
     ELSE IF checked > uc THEN Raise("finished or users changed")
     ELSE IF email # ul[checked] THEN Raise("user mismatch")
     ELSE IF prev # ul[checked - 1] THEN Raise("prev user mismatch")
     ELSE Return(checked)

\* user_iterator.py:95-141
CheckResumable(ul, uc, file, fl) ==
  LET p == ReadLastUserProgress(file)
      prev == p[1]
      email == p[2]
      checked == p[3]
  IN IF fl.first_n > 0 THEN Raise("resume and first_n")
     ELSE IF Falsy(prev) \/ Falsy(email) THEN Raise("no 2 previous users")
     ELSE IF checked < USER_PROGRESS_CHECKPOINT_BATCH THEN Raise("not enough progress")
     ELSE IF checked > uc THEN Raise("finished or users changed")
     ELSE IF email # ul[checked] THEN Raise("user mismatch")
     ELSE IF prev # ul[checked - 1] THEN Raise("prev user mismatch")
     ELSE Return(checked - NotSavedUsers(checked))

-----------------------------------------------------------------------------
\* utils/admin_api_tool_errors.py: the exception classes and their bases.

ErrorBase ==
  [AdminAPIToolError |-> "Exception",
   AdminAPIToolResumeError |-> "AdminAPIToolError",
   AdminAPIToolTokenRequestError |-> "AdminAPIToolError",
   AdminAPIToolUserError |-> "AdminAPIToolError",
   AdminAPIToolInvalidUserEmailError |-> "AdminAPIToolUserError"]

\* Whether `except cls' catches an exception of class raised.
RECURSIVE Catches(_, _)
Catches(cls, raised) ==
  \/ cls = raised
  \/ raised \in DOMAIN ErrorBase /\ Catches(cls, ErrorBase[raised])

-----------------------------------------------------------------------------
\* utils/http_utils.py and admin_sdk_directory_api/tokens_api.py

RETRY_RESPONSE_CODES == {402, 408, 503, 504}
BACKOFF_MAX_RETRIES == 8

\* Backoff.__init__, Loop and Fail (http_utils.py:39-59)
Backoff(maxretries) == [retry |-> 0, maxretries |-> maxretries]

\* A Loop that allows one more turn.
Loop_Inclusive(b) == b.retry <= b.maxretries

Loop(b) == b.retry < b.maxretries
Fail(b) == [b EXCEPT !.retry = @ + 1]

\* http_utils.py:57: the draw of random.randint(0, 1000) and what the
\* division of two ints makes of it.
RandomDraws == 0..1000
Jitter(draw) == draw \div 1000

\* The delays Fail may sleep once b.retry is incremented (http_utils.py:55-59).
FailDelays(b) == {2 ^ b.retry + Jitter(draw) : draw \in RandomDraws}

\* The statuses the remote answers a tokens request with.
HttpStatuses == {204, 404, 500, 503}

\* A request that takes only status 200 for a success.
IssueTokensRequestForUser_Only200(method, status) ==
  IF status = 200
  THEN [raised |-> "", value |-> "document", attempts |-> 1]
  ELSE IF method # "DELETE" /\ status = 404
  THEN [raised |-> "", value |-> "empty", attempts |-> 1]
  ELSE IF status \notin RETRY_RESPONSE_CODES
  THEN [raised |-> "AdminAPIToolUserError", value |-> "", attempts |-> 1]
  ELSE [raised |-> "", value |-> "None", attempts |-> BACKOFF_MAX_RETRIES]

\* _IssueTokensRequestForUser when the remote answers every attempt of the
\* request with the same status.
IssueTokensRequestForUser(method, status) ==
  IF status \in 200..299
  THEN [raised |-> "", value |-> "document", attempts |-> 1]
  ELSE IF method # "DELETE" /\ status = 404
  THEN [raised |-> "", value |-> "empty", attempts |-> 1]
  ELSE IF status \notin RETRY_RESPONSE_CODES
  THEN [raised |-> "AdminAPIToolUserError", value |-> "", attempts |-> 1]
  ELSE [raised |-> "", value |-> "None", attempts |-> BACKOFF_MAX_RETRIES]

DeleteToken(status) == IssueTokensRequestForUser("DELETE", status)

\* What the remote answers a DELETE with: revoking a token that does not
\* exist gives no fail status (revoke_tokens_for_domain_clientid.py:97-98).
DeleteStatuses(grant) == IF grant THEN HttpStatuses ELSE {204}

-----------------------------------------------------------------------------
\* utils/token_revoker.py

RECURSIVE RStripSlash(_)
RStripSlash(s) ==
  IF s # <<>> /\ s[Len(s)] = "/" THEN RStripSlash(SubSeq(s, 1, Len(s) - 1)) ELSE s

\* LoadScopeBlacklist: the set of the lines, each without trailing slashes.
LoadScopeBlacklist(lines) == {RStripSlash(l) : l \in lines}

IsRevokedByClientBlacklist(cbl, scope, client_id) ==
  cbl # {} /\ client_id \in cbl

\* A check that compares the scope as it is, slashes included.
IsRevokedByScopeBlacklist_AsWritten(sbl, scope, client_id) ==
  IF scope = <<>> THEN FALSE
  ELSE sbl \cap {scope} # {}

IsRevokedByScopeBlacklist(sbl, scope, client_id) ==
  IF scope = <<>> THEN FALSE
  ELSE sbl \cap {RStripSlash(scope), RStripSlash(scope) \o <<"/">>} # {}

\* sorted(): strings compare character by character, e-mails as numbers.
CharOrder == <<" ", "/", "1", "2", "c", "s">>
Ord(ch) == CHOOSE i \in 1..Len(CharOrder) : CharOrder[i] = ch

RECURSIVE StrLess(_, _)
StrLess(a, b) ==
  IF b = <<>> THEN FALSE
  ELSE IF a = <<>> THEN TRUE
  ELSE IF Head(a) = Head(b) THEN StrLess(Tail(a), Tail(b))
  ELSE Ord(Head(a)) < Ord(Head(b))

RECURSIVE SortedStrings(_)
SortedStrings(S) ==
  IF S = {} THEN <<>>
  ELSE LET m == CHOOSE x \in S : \A y \in S \ {x} : StrLess(x, y)
       IN <<m>> \o SortedStrings(S \ {m})

RECURSIVE SortedNumbers(_)
SortedNumbers(S) ==
  IF S = {} THEN <<>>
  ELSE LET m == CHOOSE x \in S : \A y \in S : x <= y
       IN <<m>> \o SortedNumbers(S \ {m})

\* dict.setdefault(key, set()) followed by update(users)
SetDefaultUpdate(dict, key, users) ==
  [c \in DOMAIN dict \cup {key} |->
     IF c = key
     THEN (IF key \in DOMAIN dict THEN dict[key] ELSE {}) \cup users
     ELSE dict[c]]

\* token_revoker.py:176-183: the body of the loop over the stat keys, the
\* two filters one after the other.
IdentifyOne(dict, stat_key, user_list, cbl, sbl) ==
  LET scope == UnpackStatKey(stat_key)[1]
      client_id == UnpackStatKey(stat_key)[2]
      after_client == IF IsRevokedByClientBlacklist(cbl, scope, client_id)
                      THEN SetDefaultUpdate(dict, client_id, SeqToSet(user_list))
                      ELSE dict
  IN IF IsRevokedByScopeBlacklist(sbl, scope, client_id)
     THEN SetDefaultUpdate(after_client, client_id, SeqToSet(user_list))
     ELSE after_client

RECURSIVE IdentifyLoop(_, _, _, _, _)
IdentifyLoop(dict, keys, token_data, cbl, sbl) ==
  IF keys = <<>> THEN dict
  ELSE IdentifyLoop(IdentifyOne(dict, Head(keys), token_data[Head(keys)], cbl, sbl),
                    Tail(keys), token_data, cbl, sbl)

\* An identification that consults the client black list only.
IdentifyTokensToRevoke_ClientListOnly(dict, token_data, cbl, sbl) ==
  IdentifyLoop(dict, SortedStrings(DOMAIN token_data), token_data, cbl, {})

\* _IdentifyTokensToRevoke: the dictionary client_id -> set of users that
\* the loop over the items of the token data leaves in _tokens_to_revoke.
IdentifyTokensToRevoke(dict, token_data, cbl, sbl) ==
  IdentifyLoop(dict, SortedStrings(DOMAIN token_data), token_data, cbl, sbl)

\* token_revoker.py:216-218: the (user_mail, client_id) pairs in the order
\* of the two nested loops.
RECURSIVE PairsOf(_, _)
PairsOf(client_id, users) ==
  IF users = <<>> THEN <<>>
  ELSE << <<Head(users), client_id>> >> \o PairsOf(client_id, Tail(users))

RECURSIVE RevokeOrder(_, _)
RevokeOrder(to_revoke, clients) ==
  IF clients = <<>> THEN <<>>
  ELSE PairsOf(Head(clients), SortedNumbers(to_revoke[Head(clients)]))
       \o RevokeOrder(to_revoke, Tail(clients))

-----------------------------------------------------------------------------
VARIABLES
  nUsers,          \* number of users of the remote domain
  usersFile,       \* users.json
  progressFile,    \* <prefix>_progress, one per prefix
  tokensFile,      \* tokens_issued.json
  pc,              \* position of the running command
  flags,           \* parsed command line of the running command
  user_list, user_count, users_checked, prev_user, user_email, checkpoint,
                   \* locals of StartUserIterator
  token_stats,     \* local of gather_domain_token_stats.main
  filename_path,   \* whether main's filename_path is bound
  stats_user_list, \* local of revoke_tokens_for_domain_clientid.main
  requests,        \* remote requests issued by the running command
  yielded,         \* indices yielded by the running command, in order
  resumed_from,    \* <<checkpoint>> that CheckResumable accepted, or <<>>
  runs,            \* commands started so far
  ended_at,        \* position at which the command ended
  cache_at_start,  \* whether users.json existed when the command started
  last,            \* how the command before the running one ended
  client_blacklist_set, scope_blacklist_set, tokens_to_revoke,
                   \* fields of TokenRevoker
  rv_pc,           \* position of RevokeUnapprovedTokens
  pending,         \* pairs the loops of RevokeUnapprovedTokens still visit
  revoke_calls,    \* the DeleteToken calls issued, whether the remote held
                   \* a live grant for the pair, and the status each met
  error_log,       \* pairs of the failures _RevokeToken logged
  sb_pc,           \* position of a scope black list check
  sb_lines,        \* the lines of the scope black list file
  sb_scope,        \* the scope of the token that is checked
  sb_revoked,      \* what _IsRevokedByScopeBlacklist answered
  pg_pc,           \* position of a GetDomainUsers call
  pg_domain_users, \* the users the remote lists for the primary domain
  pg_args,         \* arguments of the GetDomainUsers call
  pg_max_page,     \* max_page of _ProcessDomainUsers after its adjustment
  next_page_token, users_list, results, retrieved_count,
                   \* locals of _ProcessDomainUsers
  pg_requests,     \* the user-list requests built so far
  pg_backoff,      \* the Backoff of the running _ProcessUserListPage
  pg_status,       \* status the last attempt of a list request met
  pg_attempts,     \* attempts of the running _ProcessUserListPage
  bo,              \* a Backoff object driven by a caller loop
  bo_pc,           \* position of that caller loop
  bo_attempts,     \* attempts the caller loop made
  bo_fails,        \* Fail() calls made on the object
  bo_slept,        \* seconds Fail() has slept in all
  cm_pc,           \* position of a single-user command
  cm_cmd,          \* the command: add_user, rm_user or revoke_token
  cm_backoff,      \* the Backoff of the running wrapped request
  cm_attempts,     \* attempts of the running wrapped request
  cm_ok,           \* whether an attempt of the mutating request returned
                   \* without an error
  cm_log,          \* what the command logged or printed
  cm_ret,          \* the wrapped requests that ended, in order
  access_token_map,\* field _access_token_map of a TokenStats object
  ts_calls,        \* the AddToken calls made on it: <<primary, secondary, set(users)>>
  pk_pc,           \* position of a pack/unpack round trip
  pk_a, pk_b,      \* two (client_id, scope) pairs
  pk_keys,         \* the stat keys PackStatKey made of them
  pk_unpacked      \* what UnpackStatKey made of the first key

disk == <<usersFile, progressFile, tokensFile>>
locals == <<user_list, user_count, users_checked, prev_user, user_email,
            checkpoint>>
callerLocals == <<token_stats, filename_path, stats_user_list>>
runMeta == <<nUsers, flags, runs, cache_at_start, last>>
iterVars == <<disk, pc, locals, callerLocals, requests, yielded, resumed_from,
              ended_at, runMeta>>
revokerVars == <<client_blacklist_set, scope_blacklist_set, tokens_to_revoke,
                 rv_pc, pending, revoke_calls, error_log>>
scopeVars == <<sb_pc, sb_lines, sb_scope, sb_revoked>>
pagerVars == <<pg_pc, pg_domain_users, pg_args, pg_max_page, next_page_token,
               users_list, results, retrieved_count, pg_requests, pg_backoff,
               pg_status, pg_attempts>>
backoffVars == <<bo, bo_pc, bo_attempts, bo_fails, bo_slept>>
cmdVars == <<cm_pc, cm_cmd, cm_backoff, cm_attempts, cm_ok, cm_log, cm_ret>>
statsVars == <<access_token_map, ts_calls>>
keyVars == <<pk_pc, pk_a, pk_b, pk_keys, pk_unpacked>>
extVars == <<cmdVars, statsVars, keyVars>>
libVars == <<scopeVars, pagerVars, backoffVars, extVars>>
vars == <<iterVars, revokerVars, libVars>>

Ended == {"done", "exit1", "unhandled", "killed"}
Running == {"get_users", "check_resume", "loop", "yielded", "processed"}

NoFlags == [cmd |-> "none", apps_domain |-> PrimaryDomain, resume |-> FALSE,
            first_n |-> 0, force |-> FALSE,
            use_local_token_stats |-> FALSE, client_id |-> <<>>]
NoLast == [cmd |-> "none", resume |-> FALSE, end |-> "none", at |-> "none",
           users_checked |-> 0, wrote |-> FALSE]

FirstNChoices(n) == {k \in {0, n - 1, n + 1} : k >= 0}

\* No command has run yet.
InitProcess ==
  /\ pc = "idle"
  /\ flags = NoFlags
  /\ user_list = <<>>
  /\ user_count = 0
  /\ users_checked = 0
  /\ prev_user = None
  /\ user_email = None
  /\ checkpoint = FALSE
  /\ token_stats = EmptyStats
  /\ filename_path = FALSE
  /\ stats_user_list = {}
  /\ requests = 0
  /\ yielded = <<>>
  /\ resumed_from = <<>>
  /\ runs = 0
  /\ ended_at = "none"
  /\ cache_at_start = FALSE
  /\ last = NoLast

\* TokenRevoker.__init__ (token_revoker.py:69-84)
InitTokenRevoker ==
  /\ client_blacklist_set = {}
  /\ scope_blacklist_set = {}
  /\ tokens_to_revoke = [c \in {} |-> {}]
  /\ rv_pc = "idle"
  /\ pending = <<>>
  /\ revoke_calls = <<>>
  /\ error_log = <<>>

\* No scope black list check is under way.
InitScopeIdle ==
  /\ sb_pc = "idle"
  /\ sb_lines = {}
  /\ sb_scope = <<>>
  /\ sb_revoked = FALSE

NoArgs == [known |-> FALSE, max_results |-> None, max_page |-> 0]
NoPage == [users |-> <<>>, nextPageToken |-> None]

\* No GetDomainUsers call is under way.
InitPagerIdle ==
  /\ pg_pc = "idle"
  /\ pg_domain_users = <<>>
  /\ pg_args = NoArgs
  /\ pg_max_page = 0
  /\ next_page_token = None
  /\ users_list = NoPage
  /\ results = <<>>
  /\ retrieved_count = 0
  /\ pg_requests = <<>>
  /\ pg_backoff = Backoff(BACKOFF_MAX_RETRIES)
  /\ pg_status = 0
  /\ pg_attempts = 0

\* No caller loop is driving a Backoff.
InitBackoffIdle ==
  /\ bo = Backoff(BACKOFF_MAX_RETRIES)
  /\ bo_pc = "idle"
  /\ bo_attempts = 0
  /\ bo_fails = 0
  /\ bo_slept = 0

\* No single-user command is under way.
InitCmdIdle ==
  /\ cm_pc = "idle"
  /\ cm_cmd = "none"
  /\ cm_backoff = Backoff(BACKOFF_MAX_RETRIES)
  /\ cm_attempts = 0
  /\ cm_ok = FALSE
  /\ cm_log = <<>>
  /\ cm_ret = <<>>

\* TokenStats.__init__ (token_report_utils.py:170-185)
InitTokenStats ==
  /\ access_token_map = [p \in {} |-> <<>>]
  /\ ts_calls = {}

NoPair == [client_id |-> <<>>, scope |-> <<>>]

\* No stat key is being packed.
InitKeyIdle ==
  /\ pk_pc = "idle"
  /\ pk_a = NoPair
  /\ pk_b = NoPair
  /\ pk_keys = <<>>
  /\ pk_unpacked = <<>>

InitExtIdle ==
  /\ InitCmdIdle
  /\ InitTokenStats
  /\ InitKeyIdle

\* No library call is under way.
InitLib ==
  /\ InitScopeIdle
  /\ InitPagerIdle
  /\ InitBackoffIdle
  /\ InitExtIdle

\* An empty working directory.
Init ==
  /\ nUsers \in 0..MaxUsers
  /\ usersFile = <<>>
  /\ progressFile = [p \in Prefixes |-> <<>>]
  /\ tokensFile = <<>>
  /\ InitProcess
  /\ InitTokenRevoker
  /\ InitLib

\* The command ends at its current position.
End(kind) ==
  /\ pc' = kind
  /\ ended_at' = pc

\* 1 while the caller holds a user whose progress is not yet recorded.
InFlight == IF pc \in {"yielded", "processed"} \/ ended_at \in {"yielded", "processed"}
            THEN 1 ELSE 0

\* A new process starts with fresh locals.  `last' keeps how the process
\* before it ended, for the claims about a run that follows a crash.
FreshProcess(fl) ==
  /\ pc \in Ended \cup {"idle"}
  /\ runs < MaxRuns
  /\ runs' = runs + 1
  /\ last' = IF pc \in {"killed", "unhandled"}
             THEN [cmd |-> flags.cmd, resume |-> flags.resume, end |-> pc,
                   at |-> ended_at, users_checked |-> users_checked,
                   wrote |-> Len(yielded) > InFlight]
             ELSE [NoLast EXCEPT !.cmd = flags.cmd, !.end = pc, !.at = ended_at]
  /\ ended_at' = "none"
  /\ cache_at_start' = FileExists(usersFile)
  /\ flags' = fl
  /\ user_list' = <<>>
  /\ user_count' = 0
  /\ users_checked' = 0
  /\ prev_user' = None
  /\ user_email' = None
  /\ checkpoint' = FALSE
  /\ requests' = 0
  /\ yielded' = <<>>
  /\ resumed_from' = <<>>
  /\ UNCHANGED <<nUsers, usersFile, progressFile, revokerVars, libVars>>

\* gather_domain_token_stats.py:68-97, up to the call of StartUserIterator.
GatherMain(apps_domain, resume, first_n, force) ==
  /\ FreshProcess([cmd |-> "gather", apps_domain |-> apps_domain,
                   resume |-> resume, first_n |-> first_n,
                   force |-> force, use_local_token_stats |-> FALSE,
                   client_id |-> <<>>])
  /\ stats_user_list' = {}
  /\ IF ~resume
     THEN \* WriteTokensIssuedJson(token_stats, flags.force)
          IF FileExists(tokensFile) /\ ~force
          THEN /\ pc' = "exit1"
               /\ UNCHANGED <<tokensFile, token_stats, filename_path>>
          ELSE /\ tokensFile' = WriteJsonFile(EmptyStats)
               /\ token_stats' = EmptyStats
               /\ filename_path' = TRUE
               /\ pc' = "get_users"
     ELSE \* GetTokenStats()
          IF ~FileExists(tokensFile)
          THEN /\ pc' = "exit1"
               /\ UNCHANGED <<tokensFile, token_stats, filename_path>>
          ELSE /\ token_stats' = ReadJsonFile(tokensFile)
               /\ filename_path' = FALSE
               /\ pc' = "get_users"
               /\ UNCHANGED tokensFile

\* revoke_tokens_for_domain_clientid.py:70-89, up to the call of
\* StartUserIterator.
RevokeMain(apps_domain, resume, first_n, use_local, client_id) ==
  /\ FreshProcess([cmd |-> "revoke", apps_domain |-> apps_domain,
                   resume |-> resume, first_n |-> first_n,
                   force |-> FALSE, use_local_token_stats |-> use_local,
                   client_id |-> client_id])
  /\ token_stats' = EmptyStats
  /\ filename_path' = FALSE
  /\ UNCHANGED tokensFile
  /\ IF use_local
     THEN IF ~FileExists(tokensFile)
          THEN /\ pc' = "exit1"
               /\ stats_user_list' = {}
          ELSE /\ stats_user_list' = GetUsersInDomain(ReadJsonFile(tokensFile), client_id)
               /\ pc' = "get_users"
     ELSE /\ stats_user_list' = {}
          /\ pc' = "get_users"

\* user_iterator.py:166-168: the cache is not empty and the domain of its
\* first user is not the requested one.
DomainChanged(cached_list, fl) ==
  /\ cached_list # <<>>
  /\ GetEmailParts(cached_list[1])[2] # fl.apps_domain

\* A helper that asks the remote for the list although the cache exists.
GetUserListCached_Refetch ==
  /\ pc = "get_users"
  /\ FileExists(usersFile)
  /\ requests' = requests + 1
  /\ IF DomainChanged(ReadJsonFile(usersFile), flags)
     THEN /\ End("exit1")
          /\ UNCHANGED <<user_list, user_count>>
     ELSE /\ user_list' = ReadJsonFile(usersFile)
          /\ user_count' = Len(ReadJsonFile(usersFile))
          /\ pc' = "check_resume"
          /\ UNCHANGED ended_at
  /\ UNCHANGED <<disk, users_checked, prev_user, user_email, checkpoint,
                 callerLocals, yielded, resumed_from, runMeta,
                 revokerVars, libVars>>

\* A helper that takes the cache whatever domain it was written for.
GetUserListCached_NoDomainCheck ==
  /\ pc = "get_users"
  /\ FileExists(usersFile)
  /\ user_list' = ReadJsonFile(usersFile)
  /\ user_count' = Len(ReadJsonFile(usersFile))
  /\ pc' = "check_resume"
  /\ UNCHANGED <<disk, users_checked, prev_user, user_email, checkpoint,
                 callerLocals, requests, yielded, resumed_from, ended_at,
                 runMeta, revokerVars, libVars>>

\* user_iterator.py:162-178,184-186: the users.json cache exists.
GetUserListCached ==
  /\ pc = "get_users"
  /\ FileExists(usersFile)
  /\ IF DomainChanged(ReadJsonFile(usersFile), flags)
     THEN \* LogError(...); sys.exit(1)
          /\ End("exit1")
          /\ UNCHANGED <<user_list, user_count>>
     ELSE /\ user_list' = ReadJsonFile(usersFile)
          /\ user_count' = Len(ReadJsonFile(usersFile))
          /\ pc' = "check_resume"
          /\ UNCHANGED ended_at
  /\ UNCHANGED <<disk, users_checked, prev_user, user_email, checkpoint,
                 callerLocals, requests, yielded, resumed_from, runMeta,
                 revokerVars, libVars>>

\* user_iterator.py:179-186: no cache, the list is retrieved and cached.
GetUserListRemote ==
  /\ pc = "get_users"
  /\ ~FileExists(usersFile)
  /\ requests' = requests + 1
  /\ user_list' = DomainUsers(flags.apps_domain, nUsers)
  /\ usersFile' = WriteJsonFile(DomainUsers(flags.apps_domain, nUsers))
  /\ user_count' = Len(DomainUsers(flags.apps_domain, nUsers))
  /\ pc' = "check_resume"
  /\ UNCHANGED <<progressFile, tokensFile, users_checked, prev_user,
                 user_email, checkpoint, callerLocals, yielded, resumed_from,
                 ended_at, runMeta, revokerVars, libVars>>

\* user_iterator.py:201-205: the retrieval raises AdminAPIToolUserError.
GetUserListRemoteError ==
  /\ pc = "get_users"
  /\ ~FileExists(usersFile)
  /\ requests' = requests + 1
  /\ End("exit1")
  /\ UNCHANGED <<disk, locals, callerLocals, yielded, resumed_from, runMeta,
                 revokerVars, libVars>>

\* user_iterator.py:228-246
ResumeSetup ==
  /\ pc = "check_resume"
  /\ IF flags.resume
     THEN LET r == CheckResumable(user_list, user_count,
                                  progressFile[Prefix(flags.cmd)], flags)
          IN IF r.raised
             THEN /\ End("exit1")
                  /\ UNCHANGED <<users_checked, prev_user, user_count, resumed_from>>
             ELSE /\ users_checked' = r.value
                  /\ prev_user' = user_list[r.value]
                  /\ resumed_from' = progressFile[Prefix(flags.cmd)]
                  /\ UNCHANGED user_count
                  \* line 240 reads user_list[users_checked]: IndexError
                  /\ IF r.value >= Len(user_list)
                     THEN End("unhandled")
                     ELSE pc' = "loop" /\ UNCHANGED ended_at
     ELSE /\ users_checked' = 0
          /\ prev_user' = None
          /\ user_count' = IF flags.first_n # 0 THEN flags.first_n ELSE user_count
          /\ pc' = "loop"
          /\ UNCHANGED <<resumed_from, ended_at>>
  /\ UNCHANGED <<disk, user_list, user_email, checkpoint, callerLocals,
                 requests, yielded, runMeta, revokerVars, libVars>>

\* A loop that saves the progress of a user before yielding it.
IterYield_WritesProgressFirst ==
  /\ pc = "loop"
  /\ users_checked < Min(user_count, Len(user_list))
  /\ user_email' = user_list[users_checked + 1]
  /\ users_checked' = users_checked + 1
  /\ checkpoint' = (((users_checked + 1) % USER_PROGRESS_CHECKPOINT_BATCH = 0)
                    \/ users_checked + 1 = user_count)
  /\ yielded' = Append(yielded, users_checked)
  /\ progressFile' = [progressFile EXCEPT ![Prefix(flags.cmd)] =
                        WriteJsonFile(<<prev_user, user_email', users_checked'>>)]
  /\ pc' = "yielded"
  /\ UNCHANGED <<usersFile, tokensFile, user_list, user_count, prev_user,
                 callerLocals, requests, resumed_from, ended_at, runMeta,
                 revokerVars, libVars>>

\* A loop whose slice starts one user too late.
IterYield_SliceOffByOne ==
  /\ pc = "loop"
  /\ users_checked < Min(user_count, Len(user_list))
  /\ user_email' = user_list[Min(users_checked + 2, Len(user_list))]
  /\ users_checked' = users_checked + 1
  /\ checkpoint' = (((users_checked + 1) % USER_PROGRESS_CHECKPOINT_BATCH = 0)
                    \/ users_checked + 1 = user_count)
  /\ yielded' = Append(yielded, users_checked + 1)
  /\ pc' = "yielded"
  /\ UNCHANGED <<disk, user_list, user_count, prev_user, callerLocals,
                 requests, resumed_from, ended_at, runMeta, revokerVars, libVars>>

\* user_iterator.py:248-258: the next user is yielded to the caller.
IterYield ==
  /\ pc = "loop"
  /\ users_checked < Min(user_count, Len(user_list))
  /\ user_email' = user_list[users_checked + 1]
  /\ users_checked' = users_checked + 1
  /\ checkpoint' = (((users_checked + 1) % USER_PROGRESS_CHECKPOINT_BATCH = 0)
                    \/ users_checked + 1 = user_count)
  /\ yielded' = Append(yielded, users_checked)
  /\ pc' = "yielded"
  /\ UNCHANGED <<disk, user_list, user_count, prev_user, callerLocals,
                 requests, resumed_from, ended_at, runMeta, revokerVars, libVars>>

\* A generator that leaves the progress file behind when it is exhausted.
IterExhausted_KeepsProgress ==
  /\ pc = "loop"
  /\ ~(users_checked < Min(user_count, Len(user_list)))
  /\ IF flags.cmd = "gather" /\ ~filename_path THEN End("unhandled") ELSE End("done")
  /\ UNCHANGED <<disk, locals, callerLocals, requests, yielded, resumed_from,
                 runMeta, revokerVars, libVars>>

\* user_iterator.py:272-273, then the end of main
\* (gather_domain_token_stats.py:125 reads filename_path).
IterExhausted ==
  /\ pc = "loop"
  /\ ~(users_checked < Min(user_count, Len(user_list)))
  /\ progressFile' = [progressFile EXCEPT ![Prefix(flags.cmd)] = RemoveFile(@)]
  /\ IF flags.cmd = "gather" /\ ~filename_path THEN End("unhandled") ELSE End("done")
  /\ UNCHANGED <<usersFile, tokensFile, locals, callerLocals, requests,
                 yielded, resumed_from, runMeta, revokerVars, libVars>>

\* gather_domain_token_stats.py:103-124: the tokens of the user are added
\* and, on a checkpoint, tokens_issued.json is written.
GatherUser ==
  /\ pc = "yielded"
  /\ flags.cmd = "gather"
  /\ requests' = requests + 1
  /\ token_stats' = AppendTokens(token_stats, RemoteTokens(user_email), user_email)
  /\ IF checkpoint
     THEN /\ tokensFile' = WriteJsonFile(token_stats')
          /\ filename_path' = TRUE
     ELSE UNCHANGED <<tokensFile, filename_path>>
  /\ pc' = "processed"
  /\ UNCHANGED <<usersFile, progressFile, locals, stats_user_list, yielded,
                 resumed_from, ended_at, runMeta, revokerVars, libVars>>

\* gather_domain_token_stats.py:106-112: AdminAPIToolTokenRequestError.
GatherUserError ==
  /\ pc = "yielded"
  /\ flags.cmd = "gather"
  /\ requests' = requests + 1
  /\ End("exit1")
  /\ UNCHANGED <<disk, locals, callerLocals, yielded, resumed_from, runMeta,
                 revokerVars, libVars>>

\* revoke_tokens_for_domain_clientid.py:91-94: the user is skipped.
RevokeSkipUser ==
  /\ pc = "yielded"
  /\ flags.cmd = "revoke"
  /\ flags.use_local_token_stats /\ user_email \notin stats_user_list
  /\ pc' = "processed"
  /\ UNCHANGED <<disk, locals, callerLocals, requests, yielded, resumed_from,
                 ended_at, runMeta, revokerVars, libVars>>

\* revoke_tokens_for_domain_clientid.py:96-114: DeleteToken returns.
RevokeUser ==
  /\ pc = "yielded"
  /\ flags.cmd = "revoke"
  /\ ~(flags.use_local_token_stats /\ user_email \notin stats_user_list)
  /\ requests' = requests + 1
  /\ pc' = "processed"
  /\ UNCHANGED <<disk, locals, callerLocals, yielded, resumed_from, ended_at,
                 runMeta, revokerVars, libVars>>

\* tokens_api.py:75-78: a non-retryable status raises AdminAPIToolUserError,
\* which neither command catches.
TokenRequestUnhandled ==
  /\ pc = "yielded"
  /\ ~(flags.cmd = "revoke" /\ flags.use_local_token_stats
       /\ user_email \notin stats_user_list)
  /\ requests' = requests + 1
  /\ End("unhandled")
  /\ UNCHANGED <<disk, locals, callerLocals, yielded, resumed_from, runMeta,
                 revokerVars, libVars>>

\* A generator that does not move prev_user on after the write.
WriteProgress_KeepsPrevUser ==
  /\ pc = "processed"
  /\ progressFile' = [progressFile EXCEPT ![Prefix(flags.cmd)] =
                        WriteJsonFile(<<prev_user, user_email, users_checked>>)]
  /\ pc' = "loop"
  /\ UNCHANGED <<usersFile, tokensFile, user_list, user_count, users_checked,
                 prev_user, user_email, checkpoint, callerLocals, requests,
                 yielded, resumed_from, ended_at, runMeta, revokerVars, libVars>>

\* user_iterator.py:260-265: control is back in the generator.
WriteProgress ==
  /\ pc = "processed"
  /\ progressFile' = [progressFile EXCEPT ![Prefix(flags.cmd)] =
                        WriteJsonFile(<<prev_user, user_email, users_checked>>)]
  /\ prev_user' = user_email
  /\ pc' = "loop"
  /\ UNCHANGED <<usersFile, tokensFile, user_list, user_count, users_checked,
                 user_email, checkpoint, callerLocals, requests, yielded,
                 resumed_from, ended_at, runMeta, revokerVars, libVars>>

\* The process is interrupted from outside (Ctrl-C, kill, power loss).
Kill ==
  /\ pc \in Running
  /\ End("killed")
  /\ UNCHANGED <<disk, locals, callerLocals, requests, yielded, resumed_from,
                 runMeta, revokerVars, libVars>>

StartGather ==
  \E resume \in BOOLEAN, first_n \in FirstNChoices(nUsers), force \in BOOLEAN :
    GatherMain(PrimaryDomain, resume, first_n, force)

\* One working directory used by gather_domain_token_stats only.
Next ==
  \/ StartGather
  \/ GetUserListCached
  \/ GetUserListRemote
  \/ GetUserListRemoteError
  \/ ResumeSetup
  \/ IterYield
  \/ IterExhausted
  \/ GatherUser
  \/ GatherUserError
  \/ TokenRequestUnhandled
  \/ WriteProgress
  \/ Kill

Spec == Init /\ [][Next]_vars

-----------------------------------------------------------------------------
\* A resume of the collection against any stored checkpoint: the working
\* directory holds the user cache, a token file and a progress file with
\* arbitrary content.

StoredEmails(n) == {None, EmptyStr} \cup {Email(i) : i \in 0..n}

InitCk ==
  /\ nUsers \in 0..MaxUsers
  /\ usersFile = WriteJsonFile(RemoteUsers(nUsers))
  /\ tokensFile = WriteJsonFile(EmptyStats)
  /\ \E f \in {<<>>} \cup {WriteJsonFile(<<p, e, c>>) :
                            p \in StoredEmails(nUsers), e \in StoredEmails(nUsers),
                            c \in 0..(nUsers + 1)} :
       progressFile = [x \in Prefixes |-> IF x = "collection" THEN f ELSE <<>>]
  /\ InitProcess
  /\ InitTokenRevoker
  /\ InitLib

StartResume ==
  /\ pc = "idle"
  /\ \E first_n \in FirstNChoices(nUsers) : GatherMain(PrimaryDomain, TRUE, first_n, FALSE)

NextCk ==
  \/ StartResume
  \/ GetUserListCached
  \/ ResumeSetup
  \/ IterYield
  \/ IterExhausted
  \/ GatherUser
  \/ GatherUserError
  \/ TokenRequestUnhandled
  \/ WriteProgress
  \/ Kill

SpecCk == InitCk /\ [][NextCk]_vars

-----------------------------------------------------------------------------
\* The progress file of the running command and its parts.
Stored == progressFile[Prefix(flags.cmd)]
StoredCount == ReadJsonFile(Stored)[3]
StoredEmail == ReadJsonFile(Stored)[2]
StoredPrev == ReadJsonFile(Stored)[1]
SkipBack(c) == c - (c % USER_PROGRESS_CHECKPOINT_BATCH)
AcceptedCount == ReadJsonFile(resumed_from)[3]

\* The resume check is about to run and is not interrupted.
Checking == pc = "check_resume" /\ flags.resume /\ pc' # "killed"

OtherChecksPass ==
  /\ flags.first_n = 0
  /\ ~Falsy(StoredPrev) /\ ~Falsy(StoredEmail)
  /\ StoredCount <= user_count
  /\ StoredEmail = user_list[StoredCount]
  /\ StoredPrev = user_list[StoredCount - 1]

Mismatch ==
  /\ FileExists(Stored)
  /\ \/ StoredCount > user_count
     \/ StoredCount \in 1..user_count /\ StoredEmail # user_list[StoredCount]
     \/ StoredCount \in 2..user_count /\ StoredPrev # user_list[StoredCount - 1]

\* C5: a count_done above the user count, a user mismatch or a previous-user
\* mismatch makes the resume fail: no user is yielded, the progress file is
\* left as it is and the command exits with status 1.
C5_MismatchRefused ==
  [][(Checking /\ Mismatch)
     => (pc' = "exit1" /\ yielded' = <<>> /\ progressFile' = progressFile)]_vars

C5_Witness ==
  /\ pc = "exit1" /\ ended_at = "check_resume"
  /\ flags.resume /\ flags.first_n = 0
  /\ FileExists(Stored)
  /\ StoredCount >= USER_PROGRESS_CHECKPOINT_BATCH
  /\ StoredCount <= user_count
  /\ StoredEmail = user_list[StoredCount]
  /\ ~Falsy(StoredPrev)
  /\ StoredPrev # user_list[StoredCount - 1]
  /\ yielded = <<>>

-----------------------------------------------------------------------------
\* Claims about runs of gather_domain_token_stats on one working directory.

\* The aggregate of an uninterrupted collection over the users [lo, hi).
RECURSIVE GatherRange(_, _, _)
GatherRange(stats, lo, hi) ==
  IF lo >= hi THEN stats
  ELSE GatherRange(AppendTokens(stats, RemoteTokens(Email(lo)), Email(lo)),
                   lo + 1, hi)

Uninterrupted(n) == GatherRange(EmptyStats, 0, n)
RangeSeq(lo, hi) == [j \in 1..(hi - lo) |-> lo + j - 1]

\* The running command is a --resume that follows a run interrupted after
\* the caller finished exactly K users (K a multiple of 10, 10 <= K < N) and
\* before the next user was yielded, and it has come to its end.
C1_ResumedAfterBatch ==
  /\ last.cmd = "gather" /\ last.end = "killed" /\ ~last.resume
  /\ last.at \in {"processed", "loop"}
  /\ last.users_checked % USER_PROGRESS_CHECKPOINT_BATCH = 0
  /\ last.users_checked >= USER_PROGRESS_CHECKPOINT_BATCH
  /\ last.users_checked < nUsers
  /\ flags.cmd = "gather" /\ flags.resume /\ flags.first_n = 0
  /\ pc = "done" \/ (pc = "exit1" /\ ended_at = "check_resume")

\* C1: such a resumed run processes exactly the users [K, N) once each and
\* leaves the tokens_issued.json of an uninterrupted run over [0, N).
C1_ResumeEqualsUninterrupted ==
  C1_ResumedAfterBatch =>
    /\ pc = "done"
    /\ yielded = RangeSeq(last.users_checked, nUsers)
    /\ ReadJsonFile(tokensFile) = Uninterrupted(nUsers)

\* The running command is an accepted --resume that follows a crash while
\* the caller was processing the user at index CrashIndex.
C2_ResumedAfterCrash ==
  /\ last.end \in {"killed", "unhandled"}
  /\ last.at = "yielded"
  /\ last.cmd = flags.cmd
  /\ flags.resume
  /\ resumed_from # <<>>

CrashIndex == last.users_checked - 1

ResumeRefused == pc = "exit1" /\ ended_at = "check_resume" /\ flags.resume

\* C6 as stated: a refused --resume has issued no remote request.
C6_RefusedBeforeAnyRequest == ResumeRefused => requests = 0

\* C6 amended: a refused --resume has yielded no user, and has issued no
\* remote request when the users.json cache existed at its start; without
\* the cache the user list is requested from the remote directory before
\* the checkpoint is checked.
C6_RefusedBeforeRequestIfCached ==
  ResumeRefused =>
    /\ yielded = <<>>
    /\ cache_at_start => requests = 0
    /\ ~cache_at_start => requests > 0

C6_Witness ==
  /\ ResumeRefused
  /\ cache_at_start
  /\ FileExists(Stored)
  /\ requests = 0

\* C7: the progress file changes only when the caller has finished the
\* user the generator yielded last, and then records (email of the user
\* before, email of that user, its index + 1); while the caller holds user i
\* the file the run has written records i, not i + 1.
C7_ProgressAfterProcessing ==
  /\ [](((pc \in {"yielded", "processed"}) /\ Len(yielded) > 1)
          => (FileExists(Stored) /\ StoredCount = users_checked - 1))
  /\ [][\A p \in Prefixes :
          (progressFile'[p] # progressFile[p] /\ FileExists(progressFile'[p]))
          => /\ pc = "processed"
             /\ p = Prefix(flags.cmd)
             /\ LET i == yielded[Len(yielded)]
                IN ReadJsonFile(progressFile'[p])
                     = <<IF i = 0 THEN None ELSE Email(i - 1), Email(i), i + 1>>]_vars

C7_Witness ==
  /\ pc = "yielded"
  /\ Len(yielded) > 1
  /\ FileExists(Stored)
  /\ StoredCount = users_checked - 1
  /\ StoredPrev = Email(users_checked - 3)

\* The user the caller holds is the last one the run yields.
IsLastOfRun == users_checked = Min(user_count, Len(user_list))

\* C8: a yielded user carries is_checkpoint exactly when its position is a
\* multiple of 10 or it is the last user of the run.
C8_CheckpointOnBatchOrLast ==
  pc \in {"yielded", "processed"} =>
    (checkpoint <=> (users_checked % USER_PROGRESS_CHECKPOINT_BATCH = 0 \/ IsLastOfRun))

\* C9: after exhaustion the progress file is gone and the following --resume
\* is refused; a run that ends early leaves the progress file as it is.
C9_ProgressRemovedOnlyOnExhaustion ==
  /\ []((pc = "done" \/ (pc = "unhandled" /\ ended_at = "loop"))
          => ~FileExists(Stored))
  /\ [][(Checking /\ last.end = "done" /\ last.cmd = flags.cmd)
          => pc' = "exit1"]_vars
  /\ [][(pc \in Running /\ pc' \in {"exit1", "killed", "unhandled"}
           /\ ~(pc = "loop" /\ pc' = "unhandled"))
          => progressFile' = progressFile]_vars

C9_Witness ==
  /\ last.end = "done"
  /\ last.cmd = flags.cmd
  /\ ResumeRefused
  /\ ~FileExists(Stored)

-----------------------------------------------------------------------------
\* revoke_unapproved_tokens with --use_local_users_list and
\* --use_local_token_stats: the black lists are loaded, the tokens to revoke
\* are identified from tokens_issued.json and revoked pair by pair.

\* The lists of users a stat key of tokens_issued.json maps to.
StatUserLists == {RemoteUsers(k) : k \in 0..MaxRevokeUsers}

\* The lines of scope_blacklist.txt.
ScopeLines == {<<"s", "1">>, <<"s", "1", "/">>, <<"s", "2">>}

\* The contents of tokens_issued.json: some stat keys, each with its users.
TokenStatsFiles == UNION {[K -> StatUserLists] : K \in SUBSET StatKeys}

InitRevoker ==
  /\ nUsers = MaxRevokeUsers
  /\ usersFile = <<>>
  /\ progressFile = [p \in Prefixes |-> <<>>]
  /\ tokensFile \in {<<>>} \cup {WriteJsonFile(st) : st \in TokenStatsFiles}
  /\ InitProcess
  /\ InitTokenRevoker
  /\ InitLib

\* revoke_unapproved_tokens.py:161-165 with token_revoker.py:86-120
LoadBlacklists ==
  /\ rv_pc = "idle"
  /\ \E cbl \in SUBSET ClientIds, lines \in SUBSET ScopeLines :
       /\ client_blacklist_set' = cbl
       /\ scope_blacklist_set' = LoadScopeBlacklist(lines)
       /\ rv_pc' = IF cbl = {} /\ lines = {} THEN "exit1" ELSE "loaded"
  /\ UNCHANGED <<iterVars, libVars, tokens_to_revoke, pending, revoke_calls, error_log>>

\* token_revoker.py:209-213 with _IdentifyTokensToRevoke
StartRevokeUnapprovedTokens ==
  /\ rv_pc = "loaded"
  /\ IF ~FileExists(tokensFile)
     THEN /\ rv_pc' = "exit1"
          /\ UNCHANGED <<tokens_to_revoke, pending>>
     ELSE LET to_revoke == IdentifyTokensToRevoke(tokens_to_revoke,
                                                  ReadJsonFile(tokensFile),
                                                  client_blacklist_set,
                                                  scope_blacklist_set)
              clients == SortedStrings(DOMAIN to_revoke)
          IN /\ tokens_to_revoke' = to_revoke
             /\ pending' = RevokeOrder(to_revoke, clients)
             /\ rv_pc' = IF clients = <<>> THEN "done" ELSE "revoking"
  /\ UNCHANGED <<iterVars, libVars, client_blacklist_set, scope_blacklist_set,
                 revoke_calls, error_log>>

\* token_revoker.py:185-201, one turn of the loops at 216-218
RevokeToken ==
  /\ rv_pc = "revoking"
  /\ pending # <<>>
  /\ \E grant \in BOOLEAN : \E status \in DeleteStatuses(grant) :
       LET user_mail == Head(pending)[1]
           client_id == Head(pending)[2]
           r == DeleteToken(status)
       IN /\ revoke_calls' = Append(revoke_calls,
                                    [user_mail |-> user_mail,
                                     client_id |-> client_id,
                                     grant |-> grant,
                                     status |-> status])
          /\ pending' = Tail(pending)
          /\ IF r.raised = ""
             THEN UNCHANGED <<error_log, rv_pc>>
             ELSE IF Catches("AdminAPIToolTokenRequestError", r.raised)
             THEN /\ error_log' = Append(error_log, <<user_mail, client_id>>)
                  /\ UNCHANGED rv_pc
             ELSE /\ rv_pc' = "unhandled"
                  /\ UNCHANGED error_log
  /\ UNCHANGED <<iterVars, libVars, client_blacklist_set, scope_blacklist_set,
                 tokens_to_revoke>>

\* revoke_unapproved_tokens.py:176-178
RevokeFinished ==
  /\ rv_pc = "revoking"
  /\ pending = <<>>
  /\ rv_pc' = "done"
  /\ UNCHANGED <<iterVars, libVars, client_blacklist_set, scope_blacklist_set,
                 tokens_to_revoke, pending, revoke_calls, error_log>>

NextRevoker ==
  \/ LoadBlacklists
  \/ StartRevokeUnapprovedTokens
  \/ RevokeToken
  \/ RevokeFinished

SpecRevoker == InitRevoker /\ [][NextRevoker]_vars

\* A DELETE answered with a status that is neither a success nor retried.
NonRetryableFailure(status) ==
  status \notin 200..299 /\ status \notin RETRY_RESPONSE_CODES

\* C10: when the revocation has ended, every pair identified for
\* revocation has had its DeleteToken call, and each call that met a
\* non-retryable failure is in the error log.
C10_FailureLoggedBatchContinues ==
  (rv_pc \in {"done", "unhandled"} /\ revoke_calls # <<>>) =>
    /\ pending = <<>>
    /\ \A j \in 1..Len(revoke_calls) :
         NonRetryableFailure(revoke_calls[j].status) =>
           \E k \in 1..Len(error_log) :
             error_log[k] = <<revoke_calls[j].user_mail, revoke_calls[j].client_id>>

-----------------------------------------------------------------------------
\* Claims about the batch of RevokeUnapprovedTokens.

\* The black lists have been applied to tokens_issued.json.
Identified == rv_pc \in {"revoking", "done", "unhandled"}
RevokerEnded == rv_pc \in {"done", "unhandled"}

\* The (user, client_id) pairs of tokens_issued.json that a black list flags.
FlaggedPairs ==
  {<<u, UnpackStatKey(k)[2]>> :
     u \in 1..MaxRevokeUsers + 1, k \in DOMAIN ReadJsonFile(tokensFile)} \cap
  {pr \in (1..MaxRevokeUsers + 1) \X ClientIds :
     \E k \in DOMAIN ReadJsonFile(tokensFile) :
       /\ UnpackStatKey(k)[2] = pr[2]
       /\ pr[1] \in SeqToSet(ReadJsonFile(tokensFile)[k])
       /\ \/ pr[2] \in client_blacklist_set
          \/ RStripSlash(UnpackStatKey(k)[1]) \in scope_blacklist_set}

CallPair(j) == <<revoke_calls[j].user_mail, revoke_calls[j].client_id>>

\* Pair a comes before pair b in the order of the two sorted loops.
PairBefore(a, b) ==
  \/ StrLess(a[2], b[2])
  \/ a[2] = b[2] /\ a[1] < b[1]

\* C11: when the batch has ended, the DeleteToken calls are the flagged
\* pairs, each once, in ascending order of client_id and then of user.
C11_EachFlaggedPairOnceInOrder ==
  (RevokerEnded /\ FileExists(tokensFile)) =>
    /\ {CallPair(j) : j \in 1..Len(revoke_calls)} = FlaggedPairs
    /\ \A i, j \in 1..Len(revoke_calls) : i < j => PairBefore(CallPair(i), CallPair(j))

\* The stat keys of tokens_issued.json of client_id c that a black list flags.
FlaggedEntries(c) ==
  {k \in DOMAIN ReadJsonFile(tokensFile) :
     /\ UnpackStatKey(k)[2] = c
     /\ \/ c \in client_blacklist_set
        \/ RStripSlash(UnpackStatKey(k)[1]) \in scope_blacklist_set}

\* C12: after the identification, a client_id with a flagged entry maps to
\* the union of the user lists of its flagged entries, a client_id without
\* one has no key, and without any key no revoke call is made.
C12_IdentifiedIsUnionOfFlagged ==
  (Identified /\ FileExists(tokensFile)) =>
    /\ \A c \in ClientIds :
         IF FlaggedEntries(c) = {}
         THEN c \notin DOMAIN tokens_to_revoke
         ELSE /\ c \in DOMAIN tokens_to_revoke
              /\ tokens_to_revoke[c]
                   = UNION {SeqToSet(ReadJsonFile(tokensFile)[k]) : k \in FlaggedEntries(c)}
    /\ DOMAIN tokens_to_revoke \subseteq ClientIds
    /\ (\A c \in ClientIds : FlaggedEntries(c) = {}) => revoke_calls = <<>>

C12_Witness ==
  /\ rv_pc = "done"
  /\ \E c \in DOMAIN tokens_to_revoke :
       /\ c \notin client_blacklist_set
       /\ Cardinality(FlaggedEntries(c)) = 1
       /\ Cardinality(tokens_to_revoke[c]) = 2
  /\ \E c \in ClientIds : c \notin DOMAIN tokens_to_revoke
  /\ Len(revoke_calls) = 2

-----------------------------------------------------------------------------
\* The scope black list on its own: a file of lines is loaded and one token
\* scope is checked against it.

ScopeChars == {"a", "/"}
ScopeStrings == UNION {[1..n -> ScopeChars] : n \in 0..MaxScopeLen}

\* scope_blacklist.txt holds at most two lines.
ScopeFiles == {ls \in SUBSET ScopeStrings : Cardinality(ls) <= 2}

InitScope ==
  /\ nUsers = 0
  /\ usersFile = <<>>
  /\ progressFile = [p \in Prefixes |-> <<>>]
  /\ tokensFile = <<>>
  /\ InitProcess
  /\ InitTokenRevoker
  /\ InitPagerIdle
  /\ InitBackoffIdle
  /\ InitExtIdle
  /\ sb_pc = "idle"
  /\ sb_lines \in ScopeFiles
  /\ sb_scope \in ScopeStrings
  /\ sb_revoked = FALSE

\* token_revoker.py:101-114
ScopeLoad ==
  /\ sb_pc = "idle"
  /\ scope_blacklist_set' = LoadScopeBlacklist(sb_lines)
  /\ sb_pc' = "loaded"
  /\ UNCHANGED <<iterVars, client_blacklist_set, tokens_to_revoke, rv_pc,
                 pending, revoke_calls, error_log, sb_lines, sb_scope,
                 sb_revoked, pagerVars, backoffVars, extVars>>

\* token_revoker.py:141-162
ScopeCheck ==
  /\ sb_pc = "loaded"
  /\ sb_revoked' = IsRevokedByScopeBlacklist(scope_blacklist_set, sb_scope, <<"c", "1">>)
  /\ sb_pc' = "checked"
  /\ UNCHANGED <<iterVars, revokerVars, extVars, sb_lines, sb_scope, pagerVars,
                 backoffVars>>

NextScope ==
  \/ ScopeLoad
  \/ ScopeCheck

SpecScope == InitScope /\ [][NextScope]_vars

\* Some line of the file equals the scope once trailing slashes are removed
\* from both.
EqualModuloSlashes ==
  \E e \in sb_lines : RStripSlash(e) = RStripSlash(sb_scope)

\* C13 as stated: a scope is flagged exactly when it equals an entry of the
\* file after the trailing slashes of both are removed.
C13_FlaggedIffEqualModuloSlashes ==
  sb_pc = "checked" => (sb_revoked <=> EqualModuloSlashes)

\* C13 amended: a non-empty scope is flagged exactly when it equals an
\* entry of the file after the trailing slashes of both are removed; the
\* empty scope is never flagged.
C13_NonEmptyFlaggedIffEqualModuloSlashes ==
  sb_pc = "checked" => (sb_revoked <=> (sb_scope # <<>> /\ EqualModuloSlashes))

C13_Witness ==
  /\ sb_pc = "checked"
  /\ sb_revoked
  /\ sb_scope = <<"a", "/", "a", "/">> \/ sb_scope = <<"a", "/">>
  /\ sb_lines = {RStripSlash(sb_scope)}

-----------------------------------------------------------------------------
-----------------------------------------------------------------------------
\* A Backoff with maxretries = m driven by the loop of its callers:
\* while backoff.Loop(): attempt; a success returns, a failure calls Fail().

InitBackoff ==
  /\ nUsers = 0
  /\ usersFile = <<>>
  /\ progressFile = [p \in Prefixes |-> <<>>]
  /\ tokensFile = <<>>
  /\ InitProcess
  /\ InitTokenRevoker
  /\ InitScopeIdle
  /\ InitPagerIdle
  /\ InitBackoffIdle
  /\ InitExtIdle

\* http_utils.py:47-49
BackoffNew ==
  /\ bo_pc = "idle"
  /\ \E m \in 0..MaxMaxRetries : bo' = Backoff(m)
  /\ bo_pc' = "loop"
  /\ UNCHANGED <<iterVars, revokerVars, extVars, scopeVars, pagerVars, bo_attempts,
                 bo_fails, bo_slept>>

\* http_utils.py:51-52, the test of the while loop
BackoffLoop ==
  /\ bo_pc = "loop"
  /\ bo_pc' = IF Loop(bo) THEN "attempt" ELSE "ended"
  /\ UNCHANGED <<iterVars, revokerVars, extVars, scopeVars, pagerVars, bo, bo_attempts,
                 bo_fails, bo_slept>>

\* An attempt that fails and calls Fail (http_utils.py:54-59).
BackoffAttemptFails ==
  /\ bo_pc = "attempt"
  /\ bo_attempts' = bo_attempts + 1
  /\ bo' = Fail(bo)
  /\ bo_fails' = bo_fails + 1
  /\ \E delay_s \in FailDelays(Fail(bo)) : bo_slept' = bo_slept + delay_s
  /\ bo_pc' = "loop"
  /\ UNCHANGED <<iterVars, revokerVars, extVars, scopeVars, pagerVars>>

\* An attempt that succeeds: the caller returns from inside the loop.
BackoffAttemptSucceeds ==
  /\ bo_pc = "attempt"
  /\ bo_attempts' = bo_attempts + 1
  /\ bo_pc' = "succeeded"
  /\ UNCHANGED <<iterVars, revokerVars, extVars, scopeVars, pagerVars, bo, bo_fails,
                 bo_slept>>

NextBackoff ==
  \/ BackoffNew
  \/ BackoffLoop
  \/ BackoffAttemptFails
  \/ BackoffAttemptSucceeds

SpecBackoff == InitBackoff /\ [][NextBackoff]_vars

\* C18: Loop() answers true exactly while fewer than maxretries Fail()
\* calls have been made, and a loop whose every attempt fails makes
\* exactly maxretries attempts and then ends.
C18_BudgetIsMaxRetries ==
  /\ [](bo_pc # "idle" => (Loop(bo) <=> bo_fails < bo.maxretries))
  /\ [](bo_pc = "ended" => (bo_attempts = bo.maxretries /\ bo_fails = bo.maxretries))
  /\ [](bo_attempts <= bo.maxretries \/ bo_pc = "idle")
  /\ [][bo_attempts' = bo_attempts + 1 => bo_fails < bo.maxretries]_vars

C18_Witness ==
  /\ bo_pc = "ended"
  /\ bo.maxretries = 3
  /\ bo_attempts = 3
  /\ bo_fails = 3

-----------------------------------------------------------------------------
\* GetDomainUsers: the paged retrieval of the users of a domain
\* (admin_sdk_directory_api/users_api.py), against a remote that pages its
\* listing as the directory service of the tests does.

\* seq[a:b] of Python for 0 <= a and 0 <= b.
PySlice(seq, a, b) ==
  IF a >= Min(b, Len(seq)) THEN <<>> ELSE SubSeq(seq, a + 1, Min(b, Len(seq)))

\* One page of the listing test_users (tests/test_utils.py:260-275).
RemotePage(test_users, max_page, start_index) ==
  IF test_users # <<>> \/ start_index < Len(test_users)
  THEN LET test_users_page == PySlice(test_users, start_index, start_index + max_page)
           token == start_index + Min(max_page, Len(test_users_page))
       IN [users |-> test_users_page,
           nextPageToken |-> IF token >= Len(test_users) THEN None ELSE token]
  ELSE [users |-> <<>>, nextPageToken |-> None]

\* The listing of the requested domain (tests/test_utils.py:183-185).
Listing == IF pg_args.known THEN pg_domain_users ELSE <<>>

\* users_api.py:251-254
AdjustMaxPage(max_page, max_results) ==
  LET in_range == IF max_page < 1 \/ max_page > 500 THEN 100 ELSE max_page
  IN IF max_results # None /\ max_results < in_range THEN max_results ELSE in_range

\* `not next_page_token'
NoToken(token) == token = None \/ token = 0

MaxPageChoices == {-1, 0, 1, 2, 3, 100, 500, 501}
MaxResultsChoices == {None} \cup 0..(MaxPagedUsers + 1)
PageStatuses == {200, 404, 503}

InitPager ==
  /\ nUsers = 0
  /\ usersFile = <<>>
  /\ progressFile = [p \in Prefixes |-> <<>>]
  /\ tokensFile = <<>>
  /\ InitProcess
  /\ InitTokenRevoker
  /\ InitScopeIdle
  /\ InitBackoffIdle
  /\ InitExtIdle
  /\ pg_pc = "idle"
  /\ pg_domain_users \in {RemoteUsers(n) : n \in 0..MaxPagedUsers}
  /\ pg_args = NoArgs
  /\ pg_max_page = 0
  /\ next_page_token = None
  /\ users_list = NoPage
  /\ results = <<>>
  /\ retrieved_count = 0
  /\ pg_requests = <<>>
  /\ pg_backoff = Backoff(BACKOFF_MAX_RETRIES)
  /\ pg_status = 0
  /\ pg_attempts = 0

\* users_api.py:304-332 and 247-258, up to the first list request
GetDomainUsers ==
  /\ pg_pc = "idle"
  /\ \E known \in BOOLEAN, max_results \in MaxResultsChoices,
        max_page \in MaxPageChoices :
       /\ pg_args' = [known |-> known, max_results |-> max_results,
                      max_page |-> max_page]
       /\ pg_max_page' = AdjustMaxPage(max_page, max_results)
       /\ pg_requests' = << [maxResults |-> AdjustMaxPage(max_page, max_results),
                             pageToken |-> None] >>
  /\ results' = <<>>
  /\ retrieved_count' = 0
  /\ next_page_token' = None
  /\ pg_backoff' = Backoff(BACKOFF_MAX_RETRIES)
  /\ pg_attempts' = 0
  /\ pg_pc' = "request"
  /\ UNCHANGED <<iterVars, revokerVars, extVars, scopeVars, backoffVars,
                 pg_domain_users, users_list, pg_status>>

\* A turn of the loop that retries whatever the status of the failure.
PageAttempt_RetriesAll ==
  /\ pg_pc = "request"
  /\ Loop(pg_backoff)
  /\ \E status \in PageStatuses :
       LET request == pg_requests[Len(pg_requests)]
           start_index == IF request.pageToken = None THEN 0 ELSE request.pageToken
       IN /\ pg_status' = status
          /\ pg_attempts' = pg_attempts + 1
          /\ IF status \in 200..299
             THEN /\ users_list' = RemotePage(Listing, request.maxResults, start_index)
                  /\ pg_pc' = "page"
                  /\ UNCHANGED pg_backoff
             ELSE /\ pg_backoff' = Fail(pg_backoff)
                  /\ UNCHANGED <<pg_pc, users_list>>
  /\ UNCHANGED <<iterVars, revokerVars, extVars, scopeVars, backoffVars,
                 pg_domain_users, pg_args, pg_max_page, next_page_token,
                 results, retrieved_count, pg_requests>>

\* users_api.py:216-229: one turn of the loop of _ProcessUserListPage
PageAttempt ==
  /\ pg_pc = "request"
  /\ Loop(pg_backoff)
  /\ \E status \in PageStatuses :
       LET request == pg_requests[Len(pg_requests)]
           start_index == IF request.pageToken = None THEN 0 ELSE request.pageToken
       IN /\ pg_status' = status
          /\ pg_attempts' = pg_attempts + 1
          /\ IF status \in 200..299
             THEN /\ users_list' = RemotePage(Listing, request.maxResults, start_index)
                  /\ pg_pc' = "page"
                  /\ UNCHANGED pg_backoff
             ELSE IF status \notin RETRY_RESPONSE_CODES
             THEN /\ pg_pc' = "raised"
                  /\ UNCHANGED <<pg_backoff, users_list>>
             ELSE /\ pg_backoff' = Fail(pg_backoff)
                  /\ UNCHANGED <<pg_pc, users_list>>
  /\ UNCHANGED <<iterVars, revokerVars, extVars, scopeVars, backoffVars,
                 pg_domain_users, pg_args, pg_max_page, next_page_token,
                 results, retrieved_count, pg_requests>>

\* users_api.py:217 and 260: the loop of _ProcessUserListPage ends without
\* a return, and _ProcessDomainUsers calls get on the None it was handed.
PageBudgetSpent ==
  /\ pg_pc = "request"
  /\ ~Loop(pg_backoff)
  /\ pg_pc' = "crashed"
  /\ UNCHANGED <<iterVars, revokerVars, extVars, scopeVars, backoffVars,
                 pg_domain_users, pg_args, pg_max_page, next_page_token,
                 users_list, results, retrieved_count, pg_requests, pg_backoff,
                 pg_status, pg_attempts>>

\* The users of the page that the loop at users_api.py:260-266 goes through
\* before it returns or runs out of users.
UsersTaken(page, max_results, count) ==
  IF page = <<>> THEN 0
  ELSE IF max_results = None THEN Len(page)
  ELSE IF max_results - count <= 1 THEN 1
  ELSE Min(Len(page), max_results - count)

\* A turn that returns after the first page whatever its nextPageToken.
ProcessPage_FirstPageOnly ==
  /\ pg_pc = "page"
  /\ LET taken == UsersTaken(users_list.users, pg_args.max_results, retrieved_count)
     IN /\ results' = results \o SubSeq(users_list.users, 1, taken)
        /\ retrieved_count' = retrieved_count + taken
        /\ pg_pc' = "returned"
        /\ UNCHANGED <<next_page_token, pg_requests, pg_backoff, pg_attempts>>
  /\ UNCHANGED <<iterVars, revokerVars, extVars, scopeVars, backoffVars,
                 pg_domain_users, pg_args, pg_max_page, users_list, pg_status>>

\* users_api.py:259-273: one turn of the loop of _ProcessDomainUsers
ProcessPage ==
  /\ pg_pc = "page"
  /\ LET taken == UsersTaken(users_list.users, pg_args.max_results, retrieved_count)
         reached == /\ pg_args.max_results # None
                    /\ taken >= 1
                    /\ retrieved_count + taken >= pg_args.max_results
     IN /\ results' = results \o SubSeq(users_list.users, 1, taken)
        /\ retrieved_count' = retrieved_count + taken
        /\ IF reached
           THEN /\ pg_pc' = "returned"
                /\ UNCHANGED <<next_page_token, pg_requests, pg_backoff, pg_attempts>>
           ELSE /\ next_page_token' = users_list.nextPageToken
                /\ IF NoToken(users_list.nextPageToken)
                   THEN /\ pg_pc' = "returned"
                        /\ UNCHANGED <<pg_requests, pg_backoff, pg_attempts>>
                   ELSE /\ pg_requests' = Append(pg_requests,
                                                 [maxResults |-> pg_max_page,
                                                  pageToken |-> users_list.nextPageToken])
                        /\ pg_backoff' = Backoff(BACKOFF_MAX_RETRIES)
                        /\ pg_attempts' = 0
                        /\ pg_pc' = "request"
  /\ UNCHANGED <<iterVars, revokerVars, extVars, scopeVars, backoffVars,
                 pg_domain_users, pg_args, pg_max_page, users_list, pg_status>>

NextPager ==
  \/ GetDomainUsers
  \/ PageAttempt
  \/ PageBudgetSpent
  \/ ProcessPage

SpecPager == InitPager /\ [][NextPager]_vars

-----------------------------------------------------------------------------
\* Claims about GetDomainUsers.

\* The step builds a further list request.
FurtherRequest == Len(pg_requests') = Len(pg_requests) + 1 /\ pg_requests # <<>>

\* C15: with max_results = None a call that returns has retrieved the whole
\* listing of the domain in its order (the empty list for an unknown
\* domain); the first request carries no page token, each further request
\* carries the nextPageToken of the page before it, and the call returns at
\* the first page without one.
C15_AllUsersInListingOrder ==
  /\ []((pg_pc = "returned" /\ pg_args.max_results = None)
          => (results = Listing /\ NoToken(users_list.nextPageToken)))
  /\ [](pg_requests # <<>> => pg_requests[1].pageToken = None)
  /\ [][(FurtherRequest /\ pg_args.max_results = None)
          => /\ ~NoToken(users_list.nextPageToken)
             /\ pg_requests'[Len(pg_requests')].pageToken = users_list.nextPageToken]_vars
  /\ [][(pg_pc = "page" /\ pg_pc' = "returned" /\ pg_args.max_results = None)
          => NoToken(users_list.nextPageToken)]_vars

C15_Witness ==
  /\ pg_pc = "returned"
  /\ pg_args.max_results = None
  /\ pg_args.known
  /\ Len(results) = MaxPagedUsers
  /\ Len(pg_requests) = 2
  /\ pg_max_page = 3

C15_WitnessUnknownDomain ==
  /\ pg_pc = "returned"
  /\ pg_args.max_results = None
  /\ ~pg_args.known
  /\ pg_domain_users # <<>>
  /\ results = <<>>

\* C16: with max_results = k a call that returns has retrieved the first
\* min(k, N) users of the listing, and no list request is built once k
\* users have been retrieved.
C16_FirstKUsersNoFurtherPage ==
  /\ []((pg_pc = "returned" /\ pg_args.max_results # None)
          => results = SubSeq(Listing, 1, Min(pg_args.max_results, Len(Listing))))
  /\ [][(Len(pg_requests') = Len(pg_requests) + 1 /\ pg_args'.max_results # None)
          => retrieved_count' < pg_args'.max_results]_vars

\* C17: an attempt that meets a retryable status is followed by a Fail of
\* the Backoff and leaves the same request to be attempted again while
\* Loop() allows; one that meets another error status raises at once
\* without a Fail; a successful one hands the page over; and no attempt is
\* made once Loop() answers false.
C17_RetryOnlyRetryableStatuses ==
  /\ [][pg_attempts' = pg_attempts + 1 =>
          /\ Loop(pg_backoff)
          /\ pg_requests' = pg_requests
          /\ pg_status' \in RETRY_RESPONSE_CODES
               => /\ pg_backoff' = Fail(pg_backoff)
                  /\ pg_pc' = "request"
          /\ (pg_status' \notin RETRY_RESPONSE_CODES /\ pg_status' \notin 200..299)
               => /\ pg_backoff' = pg_backoff
                  /\ pg_pc' = "raised"
          /\ pg_status' \in 200..299
               => /\ pg_backoff' = pg_backoff
                  /\ pg_pc' = "page"
                  /\ users_list' = RemotePage(Listing,
                                              pg_requests[Len(pg_requests)].maxResults,
                                              IF pg_requests[Len(pg_requests)].pageToken = None
                                              THEN 0
                                              ELSE pg_requests[Len(pg_requests)].pageToken)]_vars
  /\ [][(pg_pc = "request" /\ ~Loop(pg_backoff)) => pg_attempts' = pg_attempts]_vars
  /\ [](pg_pc = "raised" => pg_status \notin RETRY_RESPONSE_CODES)

C17_Witness ==
  /\ pg_pc = "page"
  /\ pg_attempts = 3
  /\ pg_backoff.retry = 2
  /\ pg_status = 200
  /\ Len(pg_requests) = 2

\* C19: every list request carries a page size between 1 and 500: a
\* max_page outside that range counts as 100, and the page size is
\* max_results when that is smaller.
C19_PageSizeWithinRange ==
  \A j \in 1..Len(pg_requests) :
    /\ pg_requests[j].maxResults \in 1..500
    /\ pg_requests[j].maxResults
         = LET in_range == IF pg_args.max_page \in 1..500 THEN pg_args.max_page ELSE 100
           IN IF pg_args.max_results # None /\ pg_args.max_results < in_range
              THEN pg_args.max_results
              ELSE in_range

-----------------------------------------------------------------------------
\* The collection started for either domain in a working directory left by
\* earlier commands: a user cache of either domain or none, a token file or
\* none, a progress file or none.

CachedLists == {DomainUsers(d, n) : d \in AppsDomains, n \in 0..MaxDomainUsers}

InitDomain ==
  /\ nUsers \in 0..MaxDomainUsers
  /\ usersFile \in {<<>>} \cup {WriteJsonFile(l) : l \in CachedLists}
  /\ tokensFile \in {<<>>, WriteJsonFile(EmptyStats)}
  /\ \E f \in {<<>>, WriteJsonFile(<<None, Email(0), 0>>)} :
       progressFile = [x \in Prefixes |-> IF x = "collection" THEN f ELSE <<>>]
  /\ InitProcess
  /\ InitTokenRevoker
  /\ InitLib

StartGatherForDomain ==
  /\ pc = "idle"
  /\ \E apps_domain \in AppsDomains, resume \in BOOLEAN, force \in BOOLEAN :
       GatherMain(apps_domain, resume, 0, force)

NextDomain ==
  \/ StartGatherForDomain
  \/ GetUserListCached
  \/ GetUserListRemote
  \/ GetUserListRemoteError
  \/ ResumeSetup
  \/ IterYield
  \/ IterExhausted
  \/ GatherUser
  \/ GatherUserError
  \/ TokenRequestUnhandled
  \/ WriteProgress
  \/ Kill

SpecDomain == InitDomain /\ [][NextDomain]_vars

\* The running command is at _GetUserList and the cache was written for
\* another domain than the requested one.
AtStaleCache ==
  /\ pc = "get_users"
  /\ FileExists(usersFile)
  /\ ReadJsonFile(usersFile) # <<>>
  /\ GetEmailParts(ReadJsonFile(usersFile)[1])[2] # flags.apps_domain

\* C20: with a non-empty user cache whose first user is of another domain
\* than apps_domain, the command leaves _GetUserList only by exit 1 (or by
\* being killed there); it has yielded no user and issued no remote
\* request, and the user cache, the progress files and the token file are
\* as they were.
C20_StaleCacheExitsUntouched ==
  /\ [][(AtStaleCache /\ pc' # "get_users" /\ pc' # "killed")
          => /\ pc' = "exit1"
             /\ yielded = <<>> /\ yielded' = <<>>
             /\ requests = 0 /\ requests' = 0
             /\ disk' = disk]_vars
  /\ []((pc = "exit1" /\ ended_at = "get_users" /\ requests = 0)
          => (yielded = <<>> /\ cache_at_start))

C20_Witness ==
  /\ pc = "exit1"
  /\ ended_at = "get_users"
  /\ requests = 0
  /\ flags.apps_domain = OtherDomain
  /\ flags.resume
  /\ Len(ReadJsonFile(usersFile)) = MaxDomainUsers
  /\ GetEmailParts(ReadJsonFile(usersFile)[1])[2] = PrimaryDomain
  /\ FileExists(progressFile["collection"])

-----------------------------------------------------------------------------
\* C30: a Fail() call increments the retry counter by one and sleeps a
\* delay d with 2^retry <= d < 2^retry + 1, retry being the counter after
\* the increment: the jitter is at least 0 and less than 1 for every draw.
C30_JitterBelowOneSecond ==
  [][bo_fails' = bo_fails + 1 =>
       /\ bo'.retry = bo.retry + 1
       /\ bo_slept' - bo_slept >= 2 ^ bo'.retry
       /\ bo_slept' - bo_slept < 2 ^ bo'.retry + 1]_vars

-----------------------------------------------------------------------------
\* The single-user commands add_user, rm_user and
\* revoke_tokens_for_user_clientid: a GetDomainUser under IsDomainUser,
\* then one mutating request, each in a loop driven by a Backoff.

Commands == {"add_user", "rm_user", "revoke_token"}
UserStatuses == {200, 404, 500, 503}
MutateStatuses == {200, 404, 500, 503}

\* The wrapped function that issues the mutating request of a command.
MutatingFn(cmd) ==
  IF cmd = "add_user" THEN "AddDomainUser"
  ELSE IF cmd = "rm_user" THEN "DeleteDomainUser"
  ELSE "_IssueTokensRequestForUser"

\* The exception class main catches around the mutating call.
MainCatches(cmd) ==
  IF cmd = "revoke_token" THEN "AdminAPIToolTokenRequestError"
  ELSE "AdminAPIToolUserError"

\* A wrapped request that ended: its value or the error it raised, the
\* attempts it made and how many of them met a retryable status.
Ended_Request(fn, value, raised) ==
  [fn |-> fn, value |-> value, raised |-> raised,
   attempts |-> cm_attempts, fails |-> cm_backoff.retry]

\* One process: it runs a single-user command or lists the users of the
\* domain.
InitWrapped == InitPager

\* A process that runs no single-user command calls GetDomainUsers.
ListUsersMain ==
  /\ cm_pc = "idle"
  /\ GetDomainUsers

\* add_user.py:70-76, rm_user.py:55-61, revoke_tokens_for_user_clientid.py:60-67,
\* up to the first attempt of GetDomainUser (users_api.py:353-366).
CmdMain ==
  /\ cm_pc = "idle"
  /\ pg_pc = "idle"
  /\ \E cmd \in Commands : cm_cmd' = cmd
  /\ cm_pc' = "get_user"
  /\ cm_backoff' = Backoff(BACKOFF_MAX_RETRIES)
  /\ cm_attempts' = 0
  /\ UNCHANGED <<iterVars, revokerVars, scopeVars, pagerVars, backoffVars,
                 statsVars, keyVars,
                 cm_ok, cm_log, cm_ret>>

\* GetDomainUser has returned user (None or a document) or raised, and its
\* caller goes on: users_api.py:427-435 and add_user.py:78-81,
\* users_api.py:467-472 and rm_user.py:62-64,
\* revoke_tokens_for_user_clientid.py:67-69.
AfterGetDomainUser(is_user, raised) ==
  IF raised # ""
  THEN IF cm_cmd # "revoke_token" /\ Catches(MainCatches(cm_cmd), raised)
       THEN /\ cm_pc' = "exit1"
            /\ cm_log' = Append(cm_log, "error")
            /\ UNCHANGED <<cm_backoff, cm_attempts>>
       ELSE /\ cm_pc' = "unhandled"
            /\ UNCHANGED <<cm_log, cm_backoff, cm_attempts>>
  ELSE IF (cm_cmd = "add_user") = is_user
  THEN \* add_user: the user exists; rm_user, revoke: no such user
       /\ cm_pc' = "exit1"
       /\ cm_log' = Append(cm_log, IF cm_cmd = "revoke_token" THEN "not found"
                                   ELSE "error")
       /\ UNCHANGED <<cm_backoff, cm_attempts>>
  ELSE /\ cm_pc' = "mutate"
       /\ cm_backoff' = Backoff(BACKOFF_MAX_RETRIES)
       /\ cm_attempts' = 0
       /\ UNCHANGED cm_log

\* users_api.py:367-381: one turn of the loop of GetDomainUser
GetDomainUserAttempt ==
  /\ cm_pc = "get_user"
  /\ Loop(cm_backoff)
  /\ \E status \in UserStatuses :
       IF status \in 200..299
       THEN /\ cm_ret' = Append(cm_ret, [Ended_Request("GetDomainUser", "user", "")
                                          EXCEPT !.attempts = @ + 1])
            /\ AfterGetDomainUser(TRUE, "")
       ELSE IF status \in RETRY_RESPONSE_CODES
       THEN /\ cm_backoff' = Fail(cm_backoff)
            /\ cm_attempts' = cm_attempts + 1
            /\ UNCHANGED <<cm_pc, cm_log, cm_ret>>
       ELSE IF status = 404
       THEN /\ cm_ret' = Append(cm_ret, [Ended_Request("GetDomainUser", "None", "")
                                          EXCEPT !.attempts = @ + 1])
            /\ AfterGetDomainUser(FALSE, "")
       ELSE /\ cm_ret' = Append(cm_ret, [Ended_Request("GetDomainUser", "",
                                                       "AdminAPIToolUserError")
                                          EXCEPT !.attempts = @ + 1])
            /\ AfterGetDomainUser(FALSE, "AdminAPIToolUserError")
  /\ UNCHANGED <<iterVars, revokerVars, scopeVars, pagerVars, backoffVars,
                 statsVars, keyVars,
                 cm_cmd, cm_ok>>

\* users_api.py:367: Loop() answers false, GetDomainUser ends without a
\* return statement.
GetDomainUserBudgetSpent ==
  /\ cm_pc = "get_user"
  /\ ~Loop(cm_backoff)
  /\ cm_ret' = Append(cm_ret, Ended_Request("GetDomainUser", "None", ""))
  /\ AfterGetDomainUser(FALSE, "")
  /\ UNCHANGED <<iterVars, revokerVars, scopeVars, pagerVars, backoffVars,
                 statsVars, keyVars,
                 cm_cmd, cm_ok>>

\* The mutating call has returned or raised, and main goes on:
\* add_user.py:78-82, rm_user.py:62-65, revoke_tokens_for_user_clientid.py:76-83.
AfterMutate(raised) ==
  IF raised = ""
  THEN /\ cm_pc' = "done"
       /\ cm_log' = Append(cm_log, "success")
  ELSE IF Catches(MainCatches(cm_cmd), raised)
  THEN /\ cm_pc' = "exit1"
       /\ cm_log' = Append(cm_log, "error")
  ELSE /\ cm_pc' = "unhandled"
       /\ UNCHANGED cm_log

\* A mutating loop that reports a failure when its budget is spent.
MutateBudgetSpent_Raises ==
  /\ cm_pc = "mutate"
  /\ ~Loop(cm_backoff)
  /\ cm_ret' = Append(cm_ret, Ended_Request(MutatingFn(cm_cmd), "",
                                            MainCatches(cm_cmd)))
  /\ AfterMutate(MainCatches(cm_cmd))
  /\ UNCHANGED <<iterVars, revokerVars, scopeVars, pagerVars, backoffVars,
                 statsVars, keyVars,
                 cm_cmd, cm_ok, cm_backoff, cm_attempts>>

\* users_api.py:436-452 (insert), 473-489 (delete), tokens_api.py:66-81
\* (DELETE of a token): the loop ends without a return statement.
MutateBudgetSpent ==
  /\ cm_pc = "mutate"
  /\ ~Loop(cm_backoff)
  /\ cm_ret' = Append(cm_ret, Ended_Request(MutatingFn(cm_cmd), "None", ""))
  /\ AfterMutate("")
  /\ UNCHANGED <<iterVars, revokerVars, scopeVars, pagerVars, backoffVars,
                 statsVars, keyVars,
                 cm_cmd, cm_ok, cm_backoff, cm_attempts>>

\* users_api.py:436-452 (insert), 473-489 (delete), tokens_api.py:66-81
\* (DELETE of a token): one turn of the loop
MutateAttempt ==
  /\ cm_pc = "mutate"
  /\ Loop(cm_backoff)
  /\ \E status \in MutateStatuses :
       IF status \in 200..299
       THEN /\ cm_ok' = TRUE
            /\ cm_ret' = Append(cm_ret, [Ended_Request(MutatingFn(cm_cmd), "document", "")
                                          EXCEPT !.attempts = @ + 1])
            /\ cm_attempts' = cm_attempts + 1
            /\ AfterMutate("")
            /\ UNCHANGED cm_backoff
       ELSE IF status \in RETRY_RESPONSE_CODES
       THEN /\ cm_backoff' = Fail(cm_backoff)
            /\ cm_attempts' = cm_attempts + 1
            /\ UNCHANGED <<cm_pc, cm_log, cm_ret, cm_ok>>
       ELSE /\ cm_ret' = Append(cm_ret, [Ended_Request(MutatingFn(cm_cmd), "",
                                                       "AdminAPIToolUserError")
                                          EXCEPT !.attempts = @ + 1])
            /\ cm_attempts' = cm_attempts + 1
            /\ AfterMutate("AdminAPIToolUserError")
            /\ UNCHANGED <<cm_backoff, cm_ok>>
  /\ UNCHANGED <<iterVars, revokerVars, scopeVars, pagerVars, backoffVars,
                 statsVars, keyVars,
                 cm_cmd>>

NextWrapped ==
  \/ CmdMain
  \/ GetDomainUserAttempt
  \/ GetDomainUserBudgetSpent
  \/ MutateAttempt
  \/ MutateBudgetSpent
  \/ ListUsersMain
  \/ PageAttempt
  \/ PageBudgetSpent
  \/ ProcessPage

SpecWrapped == InitWrapped /\ [][NextWrapped]_vars

\* C25: a command logs its success message only if some attempt of its
\* mutating remote request returned without an error.
C25_SuccessLoggedOnlyAfterSuccess ==
  (\E j \in 1..Len(cm_log) : cm_log[j] = "success") => cm_ok

\* C26: a wrapped request whose every attempt met a retryable status has
\* made exactly BACKOFF_MAX_RETRIES attempts when it ends, and it ends by
\* returning None, raising nothing; this holds for GetDomainUser, for the
\* mutating requests (_IssueTokensRequestForUser among them) and for
\* _ProcessUserListPage.
C26_SpentBudgetReturnsNone ==
  /\ [](\A j \in 1..Len(cm_ret) :
          cm_ret[j].fails = cm_ret[j].attempts
            => /\ cm_ret[j].attempts = BACKOFF_MAX_RETRIES
               /\ cm_ret[j].value = "None"
               /\ cm_ret[j].raised = "")
  /\ [](cm_pc \in {"get_user", "mutate"}
          => (cm_backoff.retry = cm_attempts /\ cm_attempts <= BACKOFF_MAX_RETRIES))
  /\ [][(Len(cm_ret') = Len(cm_ret) + 1 /\ ~Loop(cm_backoff))
          => /\ cm_attempts = BACKOFF_MAX_RETRIES
             /\ cm_ret'[Len(cm_ret')].value = "None"
             /\ cm_ret'[Len(cm_ret')].raised = ""]_vars
  /\ [](pg_pc = "request"
          => (pg_backoff.retry = pg_attempts /\ pg_attempts <= BACKOFF_MAX_RETRIES))
  /\ [][(pg_pc = "request" /\ pg_pc' = "crashed")
          => (pg_attempts = BACKOFF_MAX_RETRIES
              /\ pg_backoff.retry = BACKOFF_MAX_RETRIES)]_vars
  /\ [](pg_pc = "raised" => pg_backoff.retry < pg_attempts)

C26_Witness ==
  /\ cm_cmd = "revoke_token"
  /\ Len(cm_ret) = 2
  /\ cm_ret[1].fn = "GetDomainUser"
  /\ cm_ret[1].fails = 3
  /\ cm_ret[2] = [fn |-> "_IssueTokensRequestForUser", value |-> "None",
                  raised |-> "", attempts |-> BACKOFF_MAX_RETRIES,
                  fails |-> BACKOFF_MAX_RETRIES]

C26_WitnessUserListPage ==
  /\ pg_pc = "crashed"
  /\ pg_attempts = BACKOFF_MAX_RETRIES
  /\ Len(pg_requests) = 2

-----------------------------------------------------------------------------
\* Further claims about the collection runs (Spec).

\* The running command is a --resume at its resume check and the stored
\* checkpoint passes every check of CheckResumable.
ResumeAccepted ==
  /\ pc = "check_resume"
  /\ flags.resume
  /\ ~CheckResumable(user_list, user_count, Stored, flags).raised

\* C27: a --resume whose checkpoint passes every check goes on to the loop
\* of the iterator; with a stored count_done equal to the number of users
\* it then yields no user, removes the progress file and ends normally.
C27_AcceptedResumeEndsNormally ==
  /\ [][(ResumeAccepted /\ pc' # "killed") => pc' = "loop"]_vars
  /\ []((resumed_from # <<>> /\ ReadJsonFile(resumed_from)[3] = Len(user_list)
         /\ pc \in Ended \ {"killed"})
          => (pc = "done" /\ yielded = <<>> /\ ~FileExists(Stored)))

\* The content of the progress file of a prefix.
ProgressOf(prefix) == ReadJsonFile(progressFile[prefix])

\* C29: a progress file that exists holds (prev, cur, c) with
\* 1 <= c <= len(L), cur the c-th user of the cached list L and prev the
\* user before it (null only when c = 1, in a run that is no resume); a
\* write that follows another write of the same run stores a count one
\* higher; and with c >= 10 the file passes every check of CheckResumable
\* against the same cache.
C29_ProgressFileMatchesCache ==
  /\ [](\A prefix \in Prefixes :
          FileExists(progressFile[prefix]) =>
            LET L == ReadJsonFile(usersFile)
                c == ProgressOf(prefix)[3]
            IN /\ FileExists(usersFile)
               /\ c >= 1 /\ c <= Len(L)
               /\ ProgressOf(prefix)[2] = L[c]
               /\ ProgressOf(prefix)[1] = (IF c = 1 THEN None ELSE L[c - 1])
               /\ c >= USER_PROGRESS_CHECKPOINT_BATCH
                    => ~CheckResumable(L, Len(L), progressFile[prefix],
                                       [NoFlags EXCEPT !.resume = TRUE]).raised)
  /\ [][\A prefix \in Prefixes :
          (progressFile'[prefix] # progressFile[prefix]
             /\ FileExists(progressFile'[prefix]))
            => /\ ReadJsonFile(progressFile'[prefix])[3] = users_checked
               /\ (ReadJsonFile(progressFile'[prefix])[3] = 1) => ~flags.resume
               /\ Len(yielded) >= 1
               /\ (Len(yielded) >= 2
                     => ProgressOf(prefix)[3] = users_checked - 1)]_vars

C29_Witness ==
  /\ flags.resume
  /\ resumed_from # <<>>
  /\ pc = "loop"
  /\ Len(yielded) = 2
  /\ FileExists(progressFile["collection"])
  /\ ProgressOf("collection") = <<Email(10), Email(11), 12>>

\* The aggregate stats lists email under every (client, scope) the
\* remote holds a grant of that user for.
HasGrantsOf(stats, email) ==
  \A j \in 1..Len(RemoteTokens(email)) :
    \A k \in 1..Len(RemoteTokens(email)[j].scopes) :
      email \in SeqToSet(stats[PackStatKey(RemoteTokens(email)[j].clientId,
                                                RemoteTokens(email)[j].scopes[k])])

\* C28: when a collection run has ended normally, tokens_issued.json holds
\* the grants of every user the iterator yielded in that run.
C28_FinalFileHoldsEveryYieldedUser ==
  (pc = "done" /\ flags.cmd = "gather") =>
    \A i \in 1..Len(yielded) :
      HasGrantsOf(ReadJsonFile(tokensFile), user_list[yielded[i] + 1])

\* C24: when a --resume of the collection is accepted and starts iterating
\* at index S, the aggregate it loaded from tokens_issued.json holds the
\* grants of every user with index < S; and when a resumed run has ended
\* normally, tokens_issued.json holds the grants of every user of the list.
C24_ResumeLoadsGrantsOfSkippedUsers ==
  /\ [][(ResumeAccepted /\ flags.cmd = "gather" /\ pc' = "loop")
          => \A i \in 1..users_checked' : HasGrantsOf(token_stats, user_list[i])]_vars
  /\ []((pc = "done" /\ flags.cmd = "gather" /\ flags.resume)
          => \A i \in 1..Len(user_list) :
               HasGrantsOf(ReadJsonFile(tokensFile), user_list[i]))

-----------------------------------------------------------------------------
\* The collection and the revocation over one working directory: runs of
\* gather_domain_token_stats and of revoke_tokens_for_domain_clientid over
\* the same domain, each fresh or a --resume, each killed at any point.

InitPrefix ==
  /\ nUsers = MaxPrefixUsers
  /\ usersFile = <<>>
  /\ progressFile = [p \in Prefixes |-> <<>>]
  /\ tokensFile = <<>>
  /\ InitProcess
  /\ InitTokenRevoker
  /\ InitLib

\* gather_domain_token_stats --force, with or without --resume
StartGatherOverwrite ==
  /\ pc \in Ended \cup {"idle"}
  /\ \E resume \in BOOLEAN : GatherMain(PrimaryDomain, resume, 0, TRUE)

\* revoke_tokens_for_domain_clientid -c c1, with or without --resume
StartRevoke ==
  /\ pc \in Ended \cup {"idle"}
  /\ \E resume \in BOOLEAN :
       RevokeMain(PrimaryDomain, resume, 0, FALSE, <<"c", "1">>)

NextPrefix ==
  \/ StartGatherOverwrite
  \/ StartRevoke
  \/ GetUserListCached
  \/ GetUserListRemote
  \/ ResumeSetup
  \/ IterYield
  \/ IterExhausted
  \/ GatherUser
  \/ RevokeUser
  \/ WriteProgress
  \/ Kill

SpecPrefix == InitPrefix /\ [][NextPrefix]_vars

\* The progress file that belongs to a command, and the other one.
OwnProgress(cmd) == IF cmd = "gather" THEN "collection" ELSE "revocation"
OtherProgress(cmd) == IF cmd = "gather" THEN "revocation" ELSE "collection"

\* C21: a step of a command leaves the progress file of the other prefix as
\* it is, whether the command runs fresh or resumed, to its end or to a
\* crash; and the outcome of the resume check is the one CheckResumable
\* gives for the file of the command's own prefix.
C21_PrefixesIndependent ==
  /\ [][progressFile'[OtherProgress(flags'.cmd)]
          = progressFile[OtherProgress(flags'.cmd)]]_vars
  /\ [][(pc = "check_resume" /\ flags.resume /\ pc' # "killed")
          => LET own == CheckResumable(user_list, user_count,
                                       progressFile[OwnProgress(flags.cmd)], flags)
             IN /\ own.raised <=> pc' = "exit1"
                /\ ~own.raised => (users_checked' = own.value
                                   /\ resumed_from' = progressFile[OwnProgress(flags.cmd)])]_vars

C21_Witness ==
  /\ flags.cmd = "revoke"
  /\ flags.resume
  /\ resumed_from # <<>>
  /\ pc = "loop"
  /\ Len(yielded) = 1
  /\ FileExists(progressFile["collection"])
  /\ FileExists(progressFile["revocation"])
  /\ ProgressOf("collection")[3] < USER_PROGRESS_CHECKPOINT_BATCH
  /\ ProgressOf("revocation")[3] = USER_PROGRESS_CHECKPOINT_BATCH + 1

-----------------------------------------------------------------------------
\* TokenStats.AddToken (utils/token_report_utils.py): the entries of a
\* primary are a list of (set(secondaries), set(users)).

Primaries == {"p1", "p2"}
Secondaries == {"s1", "s2"}
StatUsers == {"u1", "u2"}

\* The user lists a call may pass: any order, repetitions included.
UserLists == UNION {[1..n -> StatUsers] : n \in 0..MaxUserListLen}

\* token_report_utils.py:203: setdefault(primary, [])
SetDefaultList(map, primary) ==
  IF primary \in DOMAIN map THEN map
  ELSE [p \in DOMAIN map \cup {primary} |-> IF p = primary THEN <<>> ELSE map[p]]

\* token_report_utils.py:206-209: the loop over the entries of the primary;
\* it visits every entry and adds the secondary to each one whose user set
\* equals user_set.
RECURSIVE AddTokenLoop(_, _, _, _)
AddTokenLoop(primary_list, i, secondary, user_set) ==
  IF i > Len(primary_list) THEN [list |-> primary_list, found |-> FALSE]
  ELSE LET rest == AddTokenLoop(primary_list, i + 1, secondary, user_set)
       IN IF user_set = primary_list[i].users
          THEN [list |-> [rest.list EXCEPT ![i].secondaries = @ \cup {secondary}],
                found |-> TRUE]
          ELSE rest

\* An AddToken that appends an entry whether or not one was found.
AddTokenTo_AlwaysAppends(map, primary, secondary, users) ==
  LET with_key == SetDefaultList(map, primary)
      user_set == SeqToSet(users)
      looped == AddTokenLoop(with_key[primary], 1, secondary, user_set)
  IN [with_key EXCEPT ![primary] =
        Append(looped.list, [secondaries |-> {secondary}, users |-> user_set])]

\* token_report_utils.py:191-211
AddTokenTo(map, primary, secondary, users) ==
  LET with_key == SetDefaultList(map, primary)
      user_set == SeqToSet(users)
      looped == AddTokenLoop(with_key[primary], 1, secondary, user_set)
  IN [with_key EXCEPT ![primary] =
        IF looped.found THEN looped.list
        ELSE Append(looped.list, [secondaries |-> {secondary}, users |-> user_set])]

InitStats ==
  /\ nUsers = 0
  /\ usersFile = <<>>
  /\ progressFile = [p \in Prefixes |-> <<>>]
  /\ tokensFile = <<>>
  /\ InitProcess
  /\ InitTokenRevoker
  /\ InitLib

\* One call of AddToken.
AddToken ==
  /\ Cardinality(ts_calls) < MaxAddTokenCalls
  /\ \E primary \in Primaries, secondary \in Secondaries, users \in UserLists :
       /\ access_token_map' = AddTokenTo(access_token_map, primary, secondary, users)
       /\ ts_calls' = ts_calls \cup {<<primary, secondary, SeqToSet(users)>>}
  /\ UNCHANGED <<iterVars, revokerVars, scopeVars, pagerVars, backoffVars,
                 cmdVars, keyVars>>

NextStats == AddToken

SpecStats == InitStats /\ [][NextStats]_vars

\* The entries of primary whose user set is user_set.
EntriesWith(map, primary, user_set) ==
  IF primary \in DOMAIN map
  THEN {i \in 1..Len(map[primary]) : map[primary][i].users = user_set}
  ELSE {}

\* C22: in the list of a primary no two entries have equal user sets; every
\* call AddToken(p, s, U) made so far has exactly one entry of p with user
\* set set(U), and that entry lists s; a call leaves the user set of every
\* existing entry as it is, and it appends an entry only if no entry of the
\* primary had the user set of the call.
C22_OneEntryPerUserSet ==
  /\ [](\A p \in DOMAIN access_token_map :
          \A i, j \in 1..Len(access_token_map[p]) :
            access_token_map[p][i].users = access_token_map[p][j].users => i = j)
  /\ [](\A call \in ts_calls :
          /\ Cardinality(EntriesWith(access_token_map, call[1], call[3])) = 1
          /\ \A i \in EntriesWith(access_token_map, call[1], call[3]) :
               call[2] \in access_token_map[call[1]][i].secondaries)
  /\ [][ts_calls' # {} =>
          \A p \in DOMAIN access_token_map :
            /\ p \in DOMAIN access_token_map'
            /\ Len(access_token_map'[p]) \in {Len(access_token_map[p]),
                                             Len(access_token_map[p]) + 1}
            /\ \A i \in 1..Len(access_token_map[p]) :
                 /\ access_token_map'[p][i].users = access_token_map[p][i].users
                 /\ access_token_map[p][i].secondaries
                      \subseteq access_token_map'[p][i].secondaries
            /\ Len(access_token_map'[p]) = Len(access_token_map[p]) + 1
                 => EntriesWith(access_token_map, p,
                                access_token_map'[p][Len(access_token_map'[p])].users) = {}]_vars

C22_Witness ==
  /\ "p1" \in DOMAIN access_token_map
  /\ Len(access_token_map["p1"]) = 2
  /\ access_token_map["p1"][1] = [secondaries |-> {"s1", "s2"}, users |-> {"u1", "u2"}]
  /\ access_token_map["p1"][2] = [secondaries |-> {"s1"}, users |-> {}]
  /\ Cardinality(ts_calls) = 3

-----------------------------------------------------------------------------
\* PackStatKey and UnpackStatKey (utils/token_report_utils.py:131-155) on
\* two (client_id, scope) pairs: a client_id is any string of letters and
\* spaces, a scope any string without whitespace.

RECURSIVE StringsOver(_, _)
StringsOver(chars, n) ==
  IF n = 0 THEN {<<>>}
  ELSE StringsOver(chars, n - 1)
         \cup {Append(w, ch) : w \in StringsOver(chars, n - 1), ch \in chars}

KeyClientIds == StringsOver({"c", " "}, MaxKeyPartLen)
KeyScopes == StringsOver({"s"}, MaxKeyPartLen)
KeyPairs == [client_id : KeyClientIds, scope : KeyScopes]

InitKey ==
  /\ nUsers = 0
  /\ usersFile = <<>>
  /\ progressFile = [p \in Prefixes |-> <<>>]
  /\ tokensFile = <<>>
  /\ InitProcess
  /\ InitTokenRevoker
  /\ InitScopeIdle
  /\ InitPagerIdle
  /\ InitBackoffIdle
  /\ InitCmdIdle
  /\ InitTokenStats
  /\ pk_pc = "idle"
  /\ pk_a \in KeyPairs
  /\ pk_b \in KeyPairs
  /\ pk_keys = <<>>
  /\ pk_unpacked = <<>>

\* token_report_utils.py:131-141 applied to both pairs
PackKeys ==
  /\ pk_pc = "idle"
  /\ pk_keys' = <<PackStatKey(pk_a.client_id, pk_a.scope),
                  PackStatKey(pk_b.client_id, pk_b.scope)>>
  /\ pk_pc' = "packed"
  /\ UNCHANGED <<iterVars, revokerVars, scopeVars, pagerVars, backoffVars,
                 cmdVars, statsVars, pk_a, pk_b, pk_unpacked>>

\* token_report_utils.py:144-155 applied to the key of the first pair
UnpackKey ==
  /\ pk_pc = "packed"
  /\ pk_unpacked' = UnpackStatKey(pk_keys[1])
  /\ pk_pc' = "unpacked"
  /\ UNCHANGED <<iterVars, revokerVars, scopeVars, pagerVars, backoffVars,
                 cmdVars, statsVars, pk_a, pk_b, pk_keys>>

NextKey ==
  \/ PackKeys
  \/ UnpackKey

SpecKey == InitKey /\ [][NextKey]_vars

\* C23: unpacking the key packed from (client_id, scope) gives exactly
\* (scope, client_id), for every scope without whitespace and every
\* client_id; and two different pairs never pack to the same key.
C23_PackingIsLossless ==
  /\ pk_pc = "unpacked" => pk_unpacked = <<pk_a.scope, pk_a.client_id>>
  /\ (pk_pc # "idle" /\ pk_a # pk_b) => pk_keys[1] # pk_keys[2]

====
